---- MODULE Spec2Model ----
(***************************************************************************)
(* Credit ledger and job pipeline of the Fennai media-generation backend.  *)
(*                                                                         *)
(* The ledger (functions/proxy/firebase/credits.py) keeps per-user         *)
(* `credits` / `pendingCredits` and per-job reservation flags in Firestore *)
(* documents; every ledger operation runs inside a Firestore transaction.  *)
(* A transaction is modelled as the code runs it: the function body reads  *)
(* document snapshots, decides, and buffers writes; the commit applies the *)
(* writes only if the documents read are unchanged, otherwise the body is  *)
(* run again on fresh snapshots.                                           *)
(***************************************************************************)
EXTENDS Integers, Sequences, FiniteSets, TLC

VARIABLES users, jobs, calls, audit, tasks, handlers, merged

vars == <<users, jobs, calls, audit, tasks, handlers, merged>>

\* The state of the task queue and of the inference service's handlers.
queue == <<tasks, handlers, merged>>

----------------------------------------------------------------------------
(* Bounds of the model *)

NumJobs == 2
NumCalls == 2
MaxCost == 2
InitCredits == 3
NumChunks == 2
NumHandlers == 2
MaxDuplicates == 1
MaxFaults == 3
PipelineCredits == 12

----------------------------------------------------------------------------
(* Documents *)

JobIds == 1..NumJobs
CallIds == 1..NumCalls
Costs == 1..MaxCost

Users == {"u1"}

\* voice_clone draws a fresh uuid4 per accepted request, so a job id belongs
\* to the one user whose request created it.
Owner(job_id) == "u1"

NoJob ==
    [exists |-> FALSE, uid |-> "", status |-> "", cost |-> 0,
     creditsReserved |-> FALSE, creditsConfirmed |-> FALSE,
     creditsReleased |-> FALSE, retriesExhausted |-> FALSE,
     chunks |-> <<>>, completedChunks |-> 0]

NoFields == [f \in {} |-> TRUE]

\* The job metadata a caller passes (voice_clone passes the request body):
\* nothing the ledger writes itself, or values for the ledger's own keys.
JobData ==
    {NoFields, [creditsReserved |-> FALSE],
     [creditsReserved |-> FALSE, creditsConfirmed |-> TRUE]}

\* The document reserve_credits builds before transaction.set: its own
\* fields, then job_doc_data.update(job_data).
job_doc_data(uid, cost, job_data) ==
    LET own == [exists |-> TRUE, uid |-> uid, status |-> "queued",
                cost |-> cost, creditsReserved |-> TRUE,
                creditsConfirmed |-> FALSE, creditsReleased |-> FALSE,
                retriesExhausted |-> FALSE,
                chunks |-> <<>>, completedChunks |-> 0]
    IN [f \in DOMAIN own |->
           IF f \in DOMAIN job_data THEN job_data[f] ELSE own[f]]

\* A user document: absent, a free user's, a privileged (isPro) user's, or
\* an enterprise user's (isEnterprise without isPro).
Tiers == {"free", "pro", "missing"}

InitUser(tier, credits) ==
    [exists |-> (tier # "missing"), isPro |-> (tier = "pro"),
     isEnterprise |-> (tier = "enterprise"),
     credits |-> IF tier = "missing" THEN 0 ELSE credits,
     pendingCredits |-> 0, totalVoicesGenerated |-> 0]

----------------------------------------------------------------------------
(* Transaction bodies: decide on the snapshots, return the buffered writes *)

\* A body that reached user_ref.get and buffered its writes.
TxnResult(ok, err, path, dCredits, dPending, dUsage, userWrite, jobFields) ==
    [ok |-> ok, err |-> err, path |-> path, readUser |-> TRUE,
     dCredits |-> dCredits, dPending |-> dPending, dUsage |-> dUsage,
     userWrite |-> userWrite, jobFields |-> jobFields]

\* A body that returned or raised without writing.
TxnReturn(ok, err, path) ==
    [ok |-> ok, err |-> err, path |-> path,
     readUser |-> (path \in {"no_user", "insufficient"}),
     dCredits |-> 0, dPending |-> 0, dUsage |-> 0,
     userWrite |-> FALSE, jobFields |-> NoFields]

reserve_credits_NoCreditCheck(user, job, uid, cost, job_data) ==
    IF job.exists THEN
        TxnReturn(FALSE, "Job already exists", "already_exists")
    ELSE IF ~user.exists THEN
        TxnReturn(FALSE, "User document not found", "no_user")
    ELSE
        TxnResult(TRUE, "", "reserved",
                  0, IF user.isPro THEN 0 ELSE cost, 0, TRUE,
                  job_doc_data(uid, cost, job_data))

reserve_credits(user, job, uid, cost, job_data) ==
    IF job.exists THEN
        TxnReturn(FALSE, "Job already exists", "already_exists")
    ELSE IF ~user.exists THEN
        TxnReturn(FALSE, "User document not found", "no_user")
    ELSE IF ~user.isPro /\ user.credits - user.pendingCredits < cost THEN
        TxnReturn(FALSE, "Insufficient credits", "insufficient")
    ELSE
        TxnResult(TRUE, "", "reserved",
                  0, IF user.isPro THEN 0 ELSE cost, 0, TRUE,
                  job_doc_data(uid, cost, job_data))

confirm_credit_deduction_NoConfirmedCheck(user, job, uid, cost) ==
    IF ~job.exists THEN
        TxnReturn(FALSE, "Job document not found", "no_job")
    ELSE IF ~job.creditsReserved THEN
        TxnReturn(FALSE, "Credits were not reserved for this job", "not_reserved")
    ELSE IF ~user.exists THEN
        TxnReturn(FALSE, "User document not found", "no_user")
    ELSE
        TxnResult(TRUE, "", "confirmed",
                  IF user.isPro THEN 0 ELSE -cost,
                  IF user.isPro THEN 0 ELSE -cost, 1, TRUE,
                  [creditsConfirmed |-> TRUE])

confirm_credit_deduction(user, job, uid, cost) ==
    IF ~job.exists THEN
        TxnReturn(FALSE, "Job document not found", "no_job")
    ELSE IF job.creditsConfirmed THEN
        TxnReturn(TRUE, "", "already_confirmed")
    ELSE IF ~job.creditsReserved THEN
        TxnReturn(FALSE, "Credits were not reserved for this job", "not_reserved")
    ELSE IF ~user.exists THEN
        TxnReturn(FALSE, "User document not found", "no_user")
    ELSE
        TxnResult(TRUE, "", "confirmed",
                  IF user.isPro THEN 0 ELSE -cost,
                  IF user.isPro THEN 0 ELSE -cost, 1, TRUE,
                  [creditsConfirmed |-> TRUE])

release_credits_NoReleasedCheck(user, job, uid, cost) ==
    IF ~job.exists THEN
        TxnReturn(TRUE, "", "no_job")
    ELSE IF job.creditsConfirmed THEN
        TxnReturn(FALSE, "Credits already confirmed", "already_confirmed")
    ELSE IF ~job.creditsReserved THEN
        TxnReturn(TRUE, "", "not_reserved")
    ELSE IF ~user.exists THEN
        TxnReturn(FALSE, "User document not found", "no_user")
    ELSE
        TxnResult(TRUE, "", "released",
                  0, IF user.isPro THEN 0 ELSE -cost, 0, ~user.isPro,
                  [creditsReleased |-> TRUE])

release_credits_NoConfirmedCheck(user, job, uid, cost) ==
    IF ~job.exists THEN
        TxnReturn(TRUE, "", "no_job")
    ELSE IF job.creditsReleased THEN
        TxnReturn(TRUE, "", "already_released")
    ELSE IF ~job.creditsReserved THEN
        TxnReturn(TRUE, "", "not_reserved")
    ELSE IF ~user.exists THEN
        TxnReturn(FALSE, "User document not found", "no_user")
    ELSE
        TxnResult(TRUE, "", "released",
                  0, IF user.isPro THEN 0 ELSE -cost, 0, ~user.isPro,
                  [creditsReleased |-> TRUE])

release_credits(user, job, uid, cost) ==
    IF ~job.exists THEN
        TxnReturn(TRUE, "", "no_job")
    ELSE IF job.creditsConfirmed THEN
        TxnReturn(FALSE, "Credits already confirmed", "already_confirmed")
    ELSE IF job.creditsReleased THEN
        TxnReturn(TRUE, "", "already_released")
    ELSE IF ~job.creditsReserved THEN
        TxnReturn(TRUE, "", "not_reserved")
    ELSE IF ~user.exists THEN
        TxnReturn(FALSE, "User document not found", "no_user")
    ELSE
        TxnResult(TRUE, "", "released",
                  0, IF user.isPro THEN 0 ELSE -cost, 0, ~user.isPro,
                  [creditsReleased |-> TRUE])

\* update_in_transaction of the three operations, selected by name.
update_in_transaction(op, user, job, uid, cost, job_data) ==
    CASE op = "reserve" -> reserve_credits(user, job, uid, cost, job_data)
      [] op = "confirm" -> confirm_credit_deduction(user, job, uid, cost)
      [] op = "release" -> release_credits(user, job, uid, cost)

----------------------------------------------------------------------------
(* Commit: Increment() is applied to the stored value, update() patches    *)
(* the named fields, set() replaces the document.                          *)

Patch(doc, fields) ==
    [f \in DOMAIN doc |-> IF f \in DOMAIN fields THEN fields[f] ELSE doc[f]]

ApplyUser(U, uid, r) ==
    IF r.userWrite
    THEN [U EXCEPT ![uid].credits = @ + r.dCredits,
                   ![uid].pendingCredits = @ + r.dPending,
                   ![uid].totalVoicesGenerated = @ + r.dUsage]
    ELSE U

ApplyJob(J, job_id, r) ==
    [J EXCEPT ![job_id] = Patch(@, r.jobFields)]

\* Bookkeeping of what the ledger has done for each job (history only).
\* reserved/confirmed/released count the commits that took that branch;
\* billed sums the decrements of credits, held the increments and unheld the
\* decrements of pendingCredits made for the job.
NoAudit ==
    [reserved |-> 0, confirmed |-> 0, released |-> 0,
     billed |-> 0, held |-> 0, unheld |-> 0]

ApplyAudit(A, job_id, r) ==
    [A EXCEPT ![job_id] =
        [reserved |-> @.reserved + (IF r.path = "reserved" THEN 1 ELSE 0),
         confirmed |-> @.confirmed + (IF r.path = "confirmed" THEN 1 ELSE 0),
         released |-> @.released + (IF r.path = "released" THEN 1 ELSE 0),
         billed |-> @.billed - r.dCredits,
         held |-> @.held + (IF r.dPending > 0 THEN r.dPending ELSE 0),
         unheld |-> @.unheld + (IF r.dPending < 0 THEN -r.dPending ELSE 0)]]

----------------------------------------------------------------------------
(* Ledger calls in flight *)

NoTxn == TxnReturn(FALSE, "", "")

IdleCall ==
    [pc |-> "idle", op |-> "", job |-> 1, cost |-> 0, job_data |-> NoFields,
     stale |-> FALSE, txn |-> NoTxn]

\* @transactional: the commit succeeds only if no document the body read
\* has been written since it was read.
SnapshotFresh_NoValidation(c) == TRUE

SnapshotFresh(c) == ~calls[c].stale

\* The commit of job_id's transaction r invalidates the reads of call d.
Invalidates(job_id, r, d) ==
    /\ calls[d].pc = "read"
    /\ \/ r.jobFields # NoFields /\ calls[d].job = job_id
       \/ r.userWrite /\ calls[d].txn.readUser
             /\ Owner(calls[d].job) = Owner(job_id)

\* The transaction body runs on the documents as they are now.
Begin(c, op, job_id, cost, job_data) ==
    /\ calls[c].pc \in {"idle", "done"}
    /\ calls' = [calls EXCEPT ![c] =
                    [pc |-> "read", op |-> op, job |-> job_id, cost |-> cost,
                     job_data |-> job_data, stale |-> FALSE,
                     txn |-> update_in_transaction(op, users[Owner(job_id)],
                                 jobs[job_id], Owner(job_id), cost, job_data)]]
    /\ UNCHANGED <<users, jobs, audit, queue>>

Commit(c, op) ==
    /\ calls[c].pc = "read"
    /\ calls[c].op = op
    /\ SnapshotFresh(c)
    /\ LET job_id == calls[c].job
           uid == Owner(job_id)
           r == calls[c].txn
       IN /\ users' = ApplyUser(users, uid, r)
          /\ jobs' = ApplyJob(jobs, job_id, r)
          /\ audit' = ApplyAudit(audit, job_id, r)
          /\ calls' = [d \in CallIds |->
                          IF d = c
                          THEN [calls[c] EXCEPT !.pc = "done", !.cost = 0,
                                                !.job_data = NoFields]
                          ELSE IF Invalidates(job_id, r, d)
                               THEN [calls[d] EXCEPT !.stale = TRUE]
                               ELSE calls[d]]
          /\ UNCHANGED queue

\* reserve_credits(uid, job_id, cost, job_data): cost is the estimate.
ReserveBegin(c, job_id, cost, job_data) ==
    Begin(c, "reserve", job_id, cost, job_data)

ReserveCommit(c) == Commit(c, "reserve")

\* confirm_credit_deduction(uid, job_id, cost): cost is the actual cost.
ConfirmBegin(c, job_id, cost) == Begin(c, "confirm", job_id, cost, NoFields)

ConfirmCommit(c) == Commit(c, "confirm")

\* release_credits(uid, job_id, cost): every caller passes the cost stored
\* on the job document it has just read.
ReleaseBegin(c, job_id) ==
    Begin(c, "release", job_id, jobs[job_id].cost, NoFields)

ReleaseCommit(c) == Commit(c, "release")

\* Contention: the transaction body is run again on the current documents.
TxnRetry(c) ==
    /\ calls[c].pc = "read"
    /\ ~SnapshotFresh(c)
    /\ calls' = [calls EXCEPT ![c].stale = FALSE,
                    ![c].txn = update_in_transaction(calls[c].op,
                                   users[Owner(calls[c].job)], jobs[calls[c].job],
                                   Owner(calls[c].job), calls[c].cost,
                                   calls[c].job_data)]
    /\ UNCHANGED <<users, jobs, audit, queue>>

----------------------------------------------------------------------------
(* The task queue and the handlers of the inference service *)

\* Task 0 is the task of an unchunked job (no chunk_id in its payload); task
\* k >= 1 carries chunk_id k - 1, the k-th element of the job's chunks.
TaskIds == 0..NumChunks
HandlerIds == 1..NumHandlers

NoTask == [state |-> "none", retries |-> 0, dups |-> 0]

IdleHandler ==
    [pc |-> "idle", chunk |-> 0, uid |-> "", retry_count |-> 0,
     dup |-> FALSE, chunks |-> <<>>]

NoQueue ==
    /\ tasks = [k \in TaskIds |-> NoTask]
    /\ handlers = [h \in HandlerIds |-> IdleHandler]
    /\ merged = [j \in JobIds |-> 0]

----------------------------------------------------------------------------
(* Specification of the ledger under concurrent calls *)

Init ==
    /\ \E tier \in Tiers : users = [u \in Users |-> InitUser(tier, InitCredits)]
    /\ jobs = [j \in JobIds |-> NoJob]
    /\ calls = [c \in CallIds |-> IdleCall]
    /\ audit = [j \in JobIds |-> NoAudit]
    /\ NoQueue

Next ==
    \/ \E c \in CallIds, j \in JobIds, cost \in Costs, job_data \in JobData :
          ReserveBegin(c, j, cost, job_data)
    \/ \E c \in CallIds : ReserveCommit(c)
    \/ \E c \in CallIds, j \in JobIds, cost \in Costs : ConfirmBegin(c, j, cost)
    \/ \E c \in CallIds : ConfirmCommit(c)
    \/ \E c \in CallIds, j \in JobIds : ReleaseBegin(c, j)
    \/ \E c \in CallIds : ReleaseCommit(c)
    \/ \E c \in CallIds : TxnRetry(c)

Spec == Init /\ [][Next]_vars

----------------------------------------------------------------------------
(* Voice generation: the request route and the /inference task handler     *)

MAX_RETRY_ATTEMPTS == 2
max_attempts == 3
MAX_SPEAKERS_PER_CHUNK == 4
SECONDS_PER_SPEAKER_ESTIMATE == 15
SECONDS_PER_CREDIT == 10

\* Speakers counted in a request's text, and seconds of generated audio.
SpeakerCounts == {1, MAX_SPEAKERS_PER_CHUNK + 1}
Durations == {5, 25}

Max(a, b) == IF a >= b THEN a ELSE b

\* int(base_cost * MULTI_CHARACTER_MULTIPLIER) with the multiplier 1.5.
calculate_cost_from_duration(duration_seconds, is_multi_character) ==
    LET base_cost == Max(1, duration_seconds \div SECONDS_PER_CREDIT)
    IN Max(1, IF is_multi_character THEN (base_cost * 3) \div 2 ELSE base_cost)

get_user_tier(user) ==
    IF ~user.exists THEN "free"
    ELSE IF user.isEnterprise THEN "enterprise"
    ELSE IF user.isPro THEN "pro"
    ELSE "free"

\* speaker_count <= SPEAKER_LIMITS[user_tier]
WithinSpeakerLimit(user_tier, speaker_count) ==
    \/ user_tier = "enterprise"
    \/ user_tier = "pro" /\ speaker_count <= 12
    \/ user_tier = "free" /\ speaker_count <= 4

\* job_ref.update(fields)
job_ref_update(J, job_id, fields) == [J EXCEPT ![job_id] = Patch(@, fields)]

\* A ledger operation called by a route or a handler: its transaction runs
\* on the documents U, J and commits.
LedgerReserve(U, J, A, job_id, cost, job_data) ==
    LET uid == Owner(job_id)
        r == update_in_transaction("reserve", U[uid], J[job_id], uid, cost,
                                   job_data)
    IN [users |-> ApplyUser(U, uid, r), jobs |-> ApplyJob(J, job_id, r),
        audit |-> ApplyAudit(A, job_id, r), ok |-> r.ok]

LedgerCall(op, U, J, A, job_id, cost) ==
    LET uid == Owner(job_id)
        r == update_in_transaction(op, U[uid], J[job_id], uid, cost, NoFields)
    IN [users |-> ApplyUser(U, uid, r), jobs |-> ApplyJob(J, job_id, r),
        audit |-> ApplyAudit(A, job_id, r), ok |-> r.ok]

\* A chunk's duration is read only by the merge, which sums the durations of
\* the chunks it found completed; it is drawn there.
pending_chunk == [status |-> "pending", audioUrl |-> FALSE]

\* The route accepts one request: it reserves the estimated cost, stores the
\* chunks of a dialogue with more than MAX_SPEAKERS_PER_CHUNK speakers and
\* queues one task per chunk, or one task for the whole text.  queued is the
\* number of create_cloud_task calls that succeed before one fails; after a
\* failure the route releases the reservation and answers 500.
voice_clone(job_id, speaker_count, queued, job_data) ==
    LET uid == Owner(job_id)
        cost == calculate_cost_from_duration(
                    speaker_count * SECONDS_PER_SPEAKER_ESTIMATE,
                    speaker_count > 1)
        needs_chunking == speaker_count > MAX_SPEAKERS_PER_CHUNK
        wanted == IF needs_chunking THEN NumChunks ELSE 1
        reserved == LedgerReserve(users, jobs, audit, job_id, cost, job_data)
        stored == IF needs_chunking
                  THEN job_ref_update(reserved.jobs, job_id,
                           [chunks |-> [i \in 1..NumChunks |-> pending_chunk],
                            completedChunks |-> 0])
                  ELSE reserved.jobs
        released == LedgerCall("release", reserved.users, stored,
                               reserved.audit, job_id, cost)
    IN /\ \A k \in TaskIds : tasks[k].state = "none"
       /\ \A i \in JobIds : ~jobs[i].exists
       /\ WithinSpeakerLimit(get_user_tier(users[uid]), speaker_count)
       /\ queued \in 0..wanted
       /\ reserved.ok
       /\ tasks' = [k \in TaskIds |->
                       IF (needs_chunking /\ k \in 1..queued)
                          \/ (~needs_chunking /\ k = 0 /\ queued = 1)
                       THEN [NoTask EXCEPT !.state = "queued"]
                       ELSE NoTask]
       /\ IF queued = wanted
          THEN /\ users' = reserved.users
               /\ jobs' = stored
               /\ audit' = reserved.audit
          ELSE /\ users' = released.users
               /\ jobs' = released.jobs
               /\ audit' = released.audit
       /\ UNCHANGED <<calls, handlers, merged>>

\* The one job of the queue's tasks (job_id in every task payload).
TaskJob == CHOOSE j \in JobIds : jobs[j].exists

\* The instance that serves the next request: instances are interchangeable,
\* so it is the first idle one (0 when all are busy).
FreeHandler ==
    IF \E h \in HandlerIds : handlers[h].pc = "idle"
    THEN CHOOSE h \in HandlerIds :
             /\ handlers[h].pc = "idle"
             /\ \A g \in HandlerIds : handlers[g].pc = "idle" => h <= g
    ELSE 0

\* The queue hands a task to a handler; X-CloudTasks-TaskRetryCount is the
\* number of attempts that have failed.  The payload carries the uid the
\* route that created the task was called with, the job's owner.
Deliver(h, k) ==
    /\ h = FreeHandler
    /\ tasks[k].state = "queued"
    /\ tasks' = [tasks EXCEPT ![k].state = "running"]
    /\ handlers' = [handlers EXCEPT ![h] =
                       [IdleHandler EXCEPT !.pc = "start", !.chunk = k,
                                           !.uid = Owner(TaskJob),
                                           !.retry_count = tasks[k].retries]]
    /\ UNCHANGED <<users, jobs, calls, audit, merged>>

\* At-least-once delivery: a task being executed or already acknowledged is
\* handed out once more.
DeliverAgain(h, k) ==
    /\ h = FreeHandler
    /\ tasks[k].state \in {"running", "done"}
    /\ \A i \in TaskIds : tasks[i].dups = 0
    /\ MaxDuplicates > 0
    /\ tasks' = [tasks EXCEPT ![k].dups = @ + 1]
    /\ handlers' = [handlers EXCEPT ![h] =
                       [IdleHandler EXCEPT !.pc = "start", !.chunk = k,
                                           !.uid = Owner(TaskJob),
                                           !.retry_count = tasks[k].retries,
                                           !.dup = TRUE]]
    /\ UNCHANGED <<users, jobs, calls, audit, merged>>

\* The queue's reaction to the handler's response: a 2xx acknowledges the
\* task, anything else is retried until max_attempts attempts were made.
Respond(h, code) ==
    LET k == handlers[h].chunk
    IN IF handlers[h].dup THEN tasks
       ELSE IF code = 200 THEN [tasks EXCEPT ![k].state = "done"]
       ELSE IF handlers[h].retry_count + 1 < max_attempts
            THEN [tasks EXCEPT ![k].state = "queued", ![k].retries = @ + 1]
            ELSE [tasks EXCEPT ![k].state = "dead"]

Return(h, code) ==
    /\ handlers' = [handlers EXCEPT ![h] = IdleHandler]
    /\ tasks' = Respond(h, code)

\* The errors raised so far: failed attempts the queue has recorded, and
\* handlers that are in an except branch.
RECURSIVE Attempts(_)
Attempts(K) ==
    IF K = {} THEN 0
    ELSE LET k == CHOOSE i \in K : TRUE
         IN tasks[k].retries + (IF tasks[k].state = "dead" THEN 1 ELSE 0)
            + Attempts(K \ {k})

Faults ==
    Attempts(TaskIds)
    + Cardinality({h \in HandlerIds :
                      handlers[h].pc \in {"ValueError", "samples_failed",
                                          "Exception", "merge_failed",
                                          "extract_failed", "cluster_failed",
                                          "clone_failed", "merge_audio_failed",
                                          "merge_video_failed"}})

\* What a step that can raise does: outcomes other than success are drawn
\* while fewer than MaxFaults errors were raised.
Outcomes(success, errors) ==
    IF Faults < MaxFaults THEN {success} \cup errors ELSE {success}

is_multi_chunk(h) == handlers[h].chunk > 0

is_final_attempt(h) == handlers[h].retry_count >= MAX_RETRY_ATTEMPTS

\* inference_route reads the job document once, validates the text and the
\* characterIds (ValueError) and loads the voice samples (samples_failed).
inference_route_get_job(h, outcome) ==
    /\ handlers[h].pc = "start"
    /\ outcome \in Outcomes("validated", {"ValueError", "samples_failed"})
    /\ LET job_doc == jobs[TaskJob]
       IN IF ~job_doc.exists
          THEN Return(h, 404)
          ELSE IF job_doc.uid # handlers[h].uid
          THEN Return(h, 403)
          ELSE IF is_multi_chunk(h) /\ handlers[h].chunk > Len(job_doc.chunks)
          THEN Return(h, 404)
          ELSE /\ handlers' = [handlers EXCEPT ![h].pc = outcome,
                                               ![h].chunks = job_doc.chunks]
               /\ UNCHANGED tasks
    /\ UNCHANGED <<users, jobs, calls, audit, merged>>

\* The chunk is marked processing in the chunks read at the start, and the
\* whole array is written back.
inference_route_processing(h) ==
    /\ handlers[h].pc = "validated"
    /\ LET k == handlers[h].chunk
           chunks == [handlers[h].chunks EXCEPT ![k].status = "processing"]
       IN jobs' = job_ref_update(jobs, TaskJob,
                     IF is_multi_chunk(h)
                     THEN [chunks |-> chunks, status |-> "processing"]
                     ELSE [status |-> "processing"])
    /\ handlers' = [handlers EXCEPT ![h].pc = "generate", ![h].chunks = <<>>]
    /\ UNCHANGED <<users, calls, audit, tasks, merged>>

\* The model generates the audio and it is uploaded, or the duration check
\* raises ValueError, or anything else raises.  The duration of the audio is
\* drawn where the completion code first uses it.
inference_route_generate(h, outcome) ==
    /\ handlers[h].pc = "generate"
    /\ outcome \in Outcomes("generated", {"ValueError", "Exception"})
    /\ handlers' = [handlers EXCEPT
                       ![h].pc = IF outcome = "generated" /\ is_multi_chunk(h)
                                 THEN "chunk_generated" ELSE outcome]
    /\ UNCHANGED <<users, jobs, calls, audit, tasks, merged>>

\* _handle_multi_chunk_completion: job_ref.get()
handle_multi_chunk_completion_get(h) ==
    /\ handlers[h].pc = "chunk_generated"
    /\ handlers' = [handlers EXCEPT ![h].pc = "chunk_read",
                                    ![h].chunks = jobs[TaskJob].chunks]
    /\ UNCHANGED <<users, jobs, calls, audit, tasks, merged>>

completed_count(chunks) ==
    Cardinality({i \in DOMAIN chunks : chunks[i].status = "completed"})

\* _handle_multi_chunk_completion: the chunk is marked completed in the
\* chunks just read, the completed ones are counted, and the array and the
\* count are written; the merge follows if the count equals total_chunks.
handle_multi_chunk_completion_update(h) ==
    /\ handlers[h].pc = "chunk_read"
    /\ LET k == handlers[h].chunk
           chunks == [handlers[h].chunks EXCEPT
                         ![k] = [status |-> "completed", audioUrl |-> TRUE]]
           completed_chunks == completed_count(chunks)
           total_chunks == Len(chunks)
       IN /\ jobs' = job_ref_update(jobs, TaskJob,
                        [chunks |-> chunks,
                         completedChunks |-> completed_chunks])
          /\ IF completed_chunks = total_chunks
             THEN /\ handlers' = [handlers EXCEPT ![h].pc = "all_complete",
                                                  ![h].chunks = <<>>]
                  /\ UNCHANGED tasks
             ELSE Return(h, 200)
    /\ UNCHANGED <<users, calls, audit, merged>>

\* sum(c.get("duration", 0) for c in chunks)
RECURSIVE total_duration(_)
total_duration(durations) ==
    IF durations = <<>> THEN 0
    ELSE Head(durations) + total_duration(Tail(durations))

\* _handle_multi_chunk_completion: the chunk files are merged and uploaded,
\* then the actual cost of the total duration is confirmed.
handle_multi_chunk_completion_merge(h, merge_ok, durations, is_multi) ==
    /\ handlers[h].pc = "all_complete"
    /\ merge_ok \in Outcomes(TRUE, {FALSE})
    /\ LET job_id == TaskJob
           actual_cost == calculate_cost_from_duration(
                              total_duration(durations), is_multi)
           confirmed == LedgerCall("confirm", users, jobs, audit, job_id,
                                   actual_cost)
       IN IF merge_ok
          THEN /\ merged' = [merged EXCEPT ![job_id] = @ + 1]
               /\ users' = confirmed.users
               /\ jobs' = confirmed.jobs
               /\ audit' = confirmed.audit
               /\ handlers' = [handlers EXCEPT ![h].pc = "confirmed"]
          ELSE /\ handlers' = [handlers EXCEPT ![h].pc = "merge_failed"]
               /\ UNCHANGED <<users, jobs, audit, merged>>
    /\ UNCHANGED <<calls, tasks>>

\* _handle_multi_chunk_completion: the merge raised.
handle_multi_chunk_completion_failed(h) ==
    /\ handlers[h].pc = "merge_failed"
    /\ LET job_id == TaskJob
           failed == job_ref_update(jobs, job_id, [status |-> "failed"])
           released == LedgerCall("release", users, failed, audit, job_id,
                                  jobs[job_id].cost)
       IN /\ users' = released.users
          /\ jobs' = released.jobs
          /\ audit' = released.audit
    /\ Return(h, 500)
    /\ UNCHANGED <<calls, merged>>

\* _handle_single_chunk_completion: the actual cost of the generated audio
\* is confirmed.
handle_single_chunk_completion(h, audio_duration, is_multi_character) ==
    /\ handlers[h].pc = "generated"
    /\ LET actual_cost == calculate_cost_from_duration(
                              audio_duration, is_multi_character)
           confirmed == LedgerCall("confirm", users, jobs, audit, TaskJob,
                                   actual_cost)
       IN /\ users' = confirmed.users
          /\ jobs' = confirmed.jobs
          /\ audit' = confirmed.audit
    /\ handlers' = [handlers EXCEPT ![h].pc = "confirmed"]
    /\ UNCHANGED <<calls, tasks, merged>>

\* Both completion functions: after the confirmation the job document is
\* updated to completed and the handler answers 200.
handle_completion_completed(h) ==
    /\ handlers[h].pc = "confirmed"
    /\ jobs' = job_ref_update(jobs, TaskJob, [status |-> "completed"])
    /\ Return(h, 200)
    /\ UNCHANGED <<users, calls, audit, merged>>

\* except ValueError: the job is failed and released at any attempt.
inference_route_ValueError(h) ==
    /\ handlers[h].pc = "ValueError"
    /\ LET job_id == TaskJob
           failed == job_ref_update(jobs, job_id, [status |-> "failed"])
           released == LedgerCall("release", users, failed, audit, job_id,
                                  jobs[job_id].cost)
       IN /\ users' = released.users
          /\ jobs' = released.jobs
          /\ audit' = released.audit
    /\ Return(h, 400)
    /\ UNCHANGED <<calls, merged>>

\* The voice samples could not be loaded: on the final attempt
\* update_job_status writes failed and the reservation is released,
\* otherwise the job is retrying.
inference_route_samples_failed(h) ==
    /\ handlers[h].pc = "samples_failed"
    /\ LET job_id == TaskJob
           failed == job_ref_update(jobs, job_id, [status |-> "failed"])
           released == LedgerCall("release", users, failed, audit, job_id,
                                  jobs[job_id].cost)
       IN IF is_final_attempt(h)
          THEN /\ users' = released.users
               /\ jobs' = released.jobs
               /\ audit' = released.audit
          ELSE /\ jobs' = job_ref_update(jobs, job_id, [status |-> "retrying"])
               /\ UNCHANGED <<users, audit>>
    /\ Return(h, 500)
    /\ UNCHANGED <<calls, merged>>

\* except torch.cuda.OutOfMemoryError / except Exception: on the final
\* attempt update_job_retry_status writes failed with retriesExhausted and
\* the reservation is released, otherwise the job is retrying.
inference_route_Exception(h) ==
    /\ handlers[h].pc = "Exception"
    /\ LET job_id == TaskJob
           failed == job_ref_update(jobs, job_id,
                         [status |-> "failed", retriesExhausted |-> TRUE])
           released == LedgerCall("release", users, failed, audit, job_id,
                                  jobs[job_id].cost)
       IN IF is_final_attempt(h)
          THEN /\ users' = released.users
               /\ jobs' = released.jobs
               /\ audit' = released.audit
          ELSE /\ jobs' = job_ref_update(jobs, job_id, [status |-> "retrying"])
               /\ UNCHANGED <<users, audit>>
    /\ Return(h, 500)
    /\ UNCHANGED <<calls, merged>>

----------------------------------------------------------------------------
(* Specification of voice generation under at-least-once delivery *)

\* The users of the pipeline are the billed ones: a free user, and an
\* enterprise user, whose speaker limit allows a chunked job.
PipelineTiers == {"free", "enterprise"}

InitPipeline ==
    /\ \E tier \in PipelineTiers :
          users = [u \in Users |-> InitUser(tier, PipelineCredits)]
    /\ jobs = [j \in JobIds |-> NoJob]
    /\ calls = [c \in CallIds |-> IdleCall]
    /\ audit = [j \in JobIds |-> NoAudit]
    /\ NoQueue

NextPipeline ==
    \/ \E n \in SpeakerCounts, queued \in 0..NumChunks, data \in JobData :
          voice_clone(CHOOSE j \in JobIds : TRUE, n, queued, data)
    \/ \E h \in HandlerIds, k \in TaskIds : Deliver(h, k)
    \/ \E h \in HandlerIds, k \in TaskIds : DeliverAgain(h, k)
    \/ \E h \in HandlerIds,
          outcome \in {"validated", "ValueError", "samples_failed"} :
          inference_route_get_job(h, outcome)
    \/ \E h \in HandlerIds : inference_route_processing(h)
    \/ \E h \in HandlerIds,
          outcome \in {"generated", "ValueError", "Exception"} :
          inference_route_generate(h, outcome)
    \/ \E h \in HandlerIds : handle_multi_chunk_completion_get(h)
    \/ \E h \in HandlerIds : handle_multi_chunk_completion_update(h)
    \/ \E h \in HandlerIds, merge_ok \in BOOLEAN,
          durations \in [1..NumChunks -> Durations], m \in BOOLEAN :
          handle_multi_chunk_completion_merge(h, merge_ok, durations, m)
    \/ \E h \in HandlerIds : handle_multi_chunk_completion_failed(h)
    \/ \E h \in HandlerIds, d \in Durations, m \in BOOLEAN :
          handle_single_chunk_completion(h, d, m)
    \/ \E h \in HandlerIds : handle_completion_completed(h)
    \/ \E h \in HandlerIds : inference_route_ValueError(h)
    \/ \E h \in HandlerIds : inference_route_samples_failed(h)
    \/ \E h \in HandlerIds : inference_route_Exception(h)

SpecPipeline == InitPipeline /\ [][NextPipeline]_vars

----------------------------------------------------------------------------
(* Accounts of every tier: ledger operations one after another, and the    *)
(* credit checks that read the user document without a transaction         *)

AccountTiers == {"free", "pro", "enterprise", "missing"}

\* firebase/credits.py: available credits are credits - pendingCredits.
check_credits_available(user, cost) ==
    IF ~user.exists THEN
        TxnReturn(FALSE, "User document not found", "no_user")
    ELSE IF user.isPro THEN
        TxnReturn(TRUE, "", "pro")
    ELSE IF user.credits - user.pendingCredits < cost THEN
        TxnReturn(FALSE, "Insufficient credits", "insufficient")
    ELSE
        TxnReturn(TRUE, "", "available")

\* shared/credits.py: the function of the same name compares credits alone.
shared_check_credits_available(user, cost) ==
    IF ~user.exists THEN
        TxnReturn(FALSE, "User document not found", "no_user")
    ELSE IF user.isPro THEN
        TxnReturn(TRUE, "", "pro")
    ELSE IF user.credits < cost THEN
        TxnReturn(FALSE, "Insufficient credits", "insufficient")
    ELSE
        TxnReturn(TRUE, "", "available")

\* The call that has just returned, with what it returned.
Returned(op, job_id, cost, r) ==
    [calls EXCEPT ![1] = [pc |-> "done", op |-> op, job |-> job_id,
                          cost |-> cost, job_data |-> NoFields,
                          stale |-> FALSE, txn |-> r]]

\* A ledger operation runs its transaction and commits.
AccountCall(op, job_id, cost, job_data) ==
    LET uid == Owner(job_id)
        r == update_in_transaction(op, users[uid], jobs[job_id], uid, cost,
                                   job_data)
    IN /\ users' = ApplyUser(users, uid, r)
       /\ jobs' = ApplyJob(jobs, job_id, r)
       /\ audit' = ApplyAudit(audit, job_id, r)
       /\ calls' = Returned(op, job_id, cost, r)
       /\ UNCHANGED queue

Reserve(job_id, cost, job_data) == AccountCall("reserve", job_id, cost, job_data)

Confirm(job_id, cost) == AccountCall("confirm", job_id, cost, NoFields)

Release(job_id) == AccountCall("release", job_id, jobs[job_id].cost, NoFields)

CheckAvailable(uid, cost) ==
    /\ calls' = Returned("check", 1, cost,
                         check_credits_available(users[uid], cost))
    /\ UNCHANGED <<users, jobs, audit, queue>>

SharedCheckAvailable(uid, cost) ==
    /\ calls' = Returned("shared_check", 1, cost,
                         shared_check_credits_available(users[uid], cost))
    /\ UNCHANGED <<users, jobs, audit, queue>>

InitAccount ==
    /\ \E tier \in AccountTiers :
          users = [u \in Users |-> InitUser(tier, InitCredits)]
    /\ jobs = [j \in JobIds |-> NoJob]
    /\ calls = [c \in CallIds |-> IdleCall]
    /\ audit = [j \in JobIds |-> NoAudit]
    /\ NoQueue

NextAccount ==
    \/ \E j \in JobIds, cost \in Costs, job_data \in JobData :
          Reserve(j, cost, job_data)
    \/ \E j \in JobIds, cost \in Costs : Confirm(j, cost)
    \/ \E j \in JobIds : Release(j)
    \/ \E u \in Users, cost \in Costs : CheckAvailable(u, cost)
    \/ \E u \in Users, cost \in Costs : SharedCheckAvailable(u, cost)

SpecAccount == InitAccount /\ [][NextAccount]_vars

----------------------------------------------------------------------------
(* Dubbing: the request route and the first two stage handlers of the      *)
(* inference service, /extract-audio and /cluster-speakers                 *)

\* reserve_credits is called without a collection name, so the reservation
\* is the document voiceJobs/job_id; the stages read and write the document
\* dubbingJobs/job_id that the route sets afterwards.
DubbingDoc == 1
LedgerDoc == 2

\* Task 0 is the /extract-audio task, task 1 the /cluster-speakers task.
ExtractTask == 0
ClusterTask == 1

MediaTypes == {"audio", "video"}

\* The fields of a dubbingJobs document that the routes and the stages
\* write and read: the ledger's keys and status, originalMediaPath implied by
\* exists, transcript, mediaType, clonedAudioChunks and clonedAudioPath.
NoDubbingJob ==
    [f \in DOMAIN NoJob \cup {"transcript", "mediaType", "clonedAudioChunks",
                              "clonedAudioPath"} |->
        IF f \in {"transcript", "clonedAudioPath"} THEN FALSE
        ELSE IF f = "mediaType" THEN ""
        ELSE IF f = "clonedAudioChunks" THEN <<>>
        ELSE NoJob[f]]

\* job_ref.set(job_doc): the document carries none of the ledger's flags.
dubbing_job_doc(uid, cost, media_type) ==
    [NoDubbingJob EXCEPT !.exists = TRUE, !.uid = uid,
                         !.status = "uploading", !.cost = cost,
                         !.mediaType = media_type]

\* The route reserves the cost, stores the media, creates the job document
\* and queues the extraction; when the task cannot be queued it marks the
\* job failed and releases the reservation.
dub_transcribe(cost, media_type, queued) ==
    LET uid == Owner(DubbingDoc)
        reserved == LedgerReserve(users, jobs, audit, LedgerDoc, cost, NoFields)
        created == [reserved.jobs EXCEPT
                       ![DubbingDoc] = dubbing_job_doc(uid, cost, media_type)]
        failed == job_ref_update(created, DubbingDoc, [status |-> "failed"])
        released == LedgerCall("release", reserved.users, failed,
                               reserved.audit, LedgerDoc, cost)
    IN /\ \A k \in TaskIds : tasks[k].state = "none"
       /\ \A i \in JobIds : ~jobs[i].exists
       /\ reserved.ok
       /\ IF queued
          THEN /\ users' = reserved.users
               /\ jobs' = created
               /\ audit' = reserved.audit
               /\ tasks' = [tasks EXCEPT ![ExtractTask].state = "queued"]
          ELSE /\ users' = released.users
               /\ jobs' = released.jobs
               /\ audit' = released.audit
               /\ tasks' = tasks
       /\ UNCHANGED <<calls, handlers, merged>>

\* update_job_status(job_id, status, ..., "dubbingJobs")
update_job_status(J, status) == job_ref_update(J, DubbingDoc, [status |-> status])

\* update_job_retry_status(job_ref, retry_count, error_msg, is_final)
update_job_retry_status(J, is_final) ==
    IF is_final
    THEN job_ref_update(J, DubbingDoc,
                        [status |-> "failed", retriesExhausted |-> TRUE])
    ELSE job_ref_update(J, DubbingDoc, [status |-> "retrying"])

\* The except branch shared by the stage handlers: on the final attempt the
\* job is failed and release_credits is called on the dubbingJobs document,
\* otherwise the job is marked retrying; the answer is 500 either way.
stage_Exception(h) ==
    LET marked == update_job_retry_status(jobs, is_final_attempt(h))
        released == LedgerCall("release", users, marked, audit, DubbingDoc,
                               jobs[DubbingDoc].cost)
    IN /\ IF is_final_attempt(h)
          THEN /\ users' = released.users
               /\ jobs' = released.jobs
               /\ audit' = released.audit
          ELSE /\ jobs' = marked
               /\ UNCHANGED <<users, audit>>
       /\ Return(h, 500)
       /\ UNCHANGED <<calls, merged>>

\* get_job_document, then the first status write of the stage.
extract_audio_route_start(h, outcome) ==
    /\ handlers[h].pc = "start"
    /\ handlers[h].chunk = ExtractTask
    /\ outcome \in Outcomes("extracting", {"extract_failed"})
    /\ IF ~jobs[DubbingDoc].exists
       THEN /\ Return(h, 404)
            /\ UNCHANGED jobs
       ELSE /\ jobs' = update_job_status(jobs, "extracting")
            /\ handlers' = [handlers EXCEPT ![h].pc = outcome]
            /\ UNCHANGED tasks
    /\ UNCHANGED <<users, calls, audit, merged>>

\* The audio is uploaded; the speech-to-text request starts.
extract_audio_route_transcribe(h, outcome) ==
    /\ handlers[h].pc = "extracting"
    /\ outcome \in Outcomes("transcribing", {"extract_failed"})
    /\ jobs' = update_job_status(jobs, "transcribing")
    /\ handlers' = [handlers EXCEPT ![h].pc = outcome]
    /\ UNCHANGED <<users, calls, audit, tasks, merged>>

\* The transcript is stored and the clustering task is created.  A task of
\* that stage that already exists stands for the new one as well: its
\* further deliveries are those of DeliverAgain.
extract_audio_route_done(h) ==
    /\ handlers[h].pc = "transcribing"
    /\ jobs' = job_ref_update(jobs, DubbingDoc,
                              [transcript |-> TRUE, status |-> "transcribing"])
    /\ handlers' = [handlers EXCEPT ![h] = IdleHandler]
    /\ tasks' = [Respond(h, 200) EXCEPT
                    ![ClusterTask].state =
                        IF @ = "none" THEN "queued" ELSE @]
    /\ UNCHANGED <<users, calls, audit, merged>>

extract_audio_route_Exception(h) ==
    /\ handlers[h].pc = "extract_failed"
    /\ stage_Exception(h)

\* get_job_document; an empty transcript raises ValueError before the
\* status is written.
cluster_speakers_route_start(h, outcome) ==
    /\ handlers[h].pc = "start"
    /\ handlers[h].chunk = ClusterTask
    /\ outcome \in Outcomes("clustering", {"cluster_failed"})
    /\ IF ~jobs[DubbingDoc].exists
       THEN /\ Return(h, 404)
            /\ UNCHANGED jobs
       ELSE IF ~jobs[DubbingDoc].transcript
       THEN /\ handlers' = [handlers EXCEPT ![h].pc = "cluster_failed"]
            /\ UNCHANGED <<jobs, tasks>>
       ELSE /\ jobs' = update_job_status(jobs, "clustering")
            /\ handlers' = [handlers EXCEPT ![h].pc = outcome]
            /\ UNCHANGED tasks
    /\ UNCHANGED <<users, calls, audit, merged>>

\* The speakers and their samples are stored.
cluster_speakers_route_done(h) ==
    /\ handlers[h].pc = "clustering"
    /\ jobs' = job_ref_update(jobs, DubbingDoc, [status |-> "transcribing_done"])
    /\ Return(h, 200)
    /\ UNCHANGED <<users, calls, audit, merged>>

cluster_speakers_route_Exception(h) ==
    /\ handlers[h].pc = "cluster_failed"
    /\ stage_Exception(h)

InitDubbing ==
    /\ users = [u \in Users |-> InitUser("free", PipelineCredits)]
    /\ jobs = [j \in JobIds |-> IF j = DubbingDoc THEN NoDubbingJob ELSE NoJob]
    /\ calls = [c \in CallIds |-> IdleCall]
    /\ audit = [j \in JobIds |-> NoAudit]
    /\ NoQueue

NextDubbing ==
    \/ \E cost \in Costs, media_type \in MediaTypes, queued \in BOOLEAN :
          dub_transcribe(cost, media_type, queued)
    \/ \E h \in HandlerIds, k \in {ExtractTask, ClusterTask} : Deliver(h, k)
    \/ \E h \in HandlerIds, k \in {ExtractTask, ClusterTask} : DeliverAgain(h, k)
    \/ \E h \in HandlerIds, outcome \in {"extracting", "extract_failed"} :
          extract_audio_route_start(h, outcome)
    \/ \E h \in HandlerIds, outcome \in {"transcribing", "extract_failed"} :
          extract_audio_route_transcribe(h, outcome)
    \/ \E h \in HandlerIds : extract_audio_route_done(h)
    \/ \E h \in HandlerIds : extract_audio_route_Exception(h)
    \/ \E h \in HandlerIds, outcome \in {"clustering", "cluster_failed"} :
          cluster_speakers_route_start(h, outcome)
    \/ \E h \in HandlerIds : cluster_speakers_route_done(h)
    \/ \E h \in HandlerIds : cluster_speakers_route_Exception(h)

SpecDubbing == InitDubbing /\ [][NextDubbing]_vars

----------------------------------------------------------------------------
(* The translation request *)

\* A client calls dub_translate for the job with its own uid.
dub_translate_request(h, uid) ==
    /\ h = FreeHandler
    /\ \A g \in HandlerIds : handlers[g].pc # "translate"
    /\ handlers' = [handlers EXCEPT ![h] =
                       [IdleHandler EXCEPT !.pc = "translate", !.uid = uid]]
    /\ UNCHANGED <<users, jobs, calls, audit, tasks, merged>>

\* dub_translate: 404 without the job, 403 for another user's job, 400
\* unless the status is transcribed or speaker_clustered and a transcript
\* is stored; otherwise the status becomes translating.
dub_translate(h) ==
    /\ handlers[h].pc = "translate"
    /\ LET job_data == jobs[DubbingDoc]
       IN IF /\ job_data.exists
             /\ job_data.uid = handlers[h].uid
             /\ job_data.status \in {"transcribed", "speaker_clustered"}
             /\ job_data.transcript
          THEN jobs' = job_ref_update(jobs, DubbingDoc,
                                      [status |-> "translating"])
          ELSE jobs' = jobs
    /\ handlers' = [handlers EXCEPT ![h] = IdleHandler]
    /\ UNCHANGED <<users, calls, audit, tasks, merged>>

NextTranslate ==
    \/ NextDubbing
    \/ \E h \in HandlerIds, uid \in Users : dub_translate_request(h, uid)
    \/ \E h \in HandlerIds : dub_translate(h)

SpecTranslate == InitDubbing /\ [][NextTranslate]_vars

----------------------------------------------------------------------------
(* Dubbing, second half: the cloning request and the /clone-audio,         *)
(* /merge-audio and /merge-video handlers                                  *)

\* Task 0 is the /clone-audio task of the one chunk a short transcript is
\* split into, task 1 the /merge-audio task, task 2 the /merge-video task.
CloneTask == 0
MergeAudioTask == 1
MergeVideoTask == 2

pending_cloned_chunk == [status |-> "pending", audioPath |-> FALSE]

\* The route stores the chunks, sets status cloning and queues one task per
\* chunk; when a task cannot be queued it marks the job failed.
dub_clone(queued) ==
    LET stored == job_ref_update(jobs, DubbingDoc,
                      [status |-> "cloning", completedChunks |-> 0,
                       clonedAudioChunks |-> <<pending_cloned_chunk>>])
    IN /\ jobs[DubbingDoc].exists
       /\ jobs[DubbingDoc].transcript
       /\ \A k \in TaskIds : tasks[k].state = "none"
       /\ IF queued
          THEN /\ jobs' = stored
               /\ tasks' = [tasks EXCEPT ![CloneTask].state = "queued"]
          ELSE /\ jobs' = job_ref_update(stored, DubbingDoc,
                                         [status |-> "failed"])
               /\ tasks' = tasks
       /\ UNCHANGED <<users, calls, audit, handlers, merged>>

\* clone_audio_route reads the job document, keeps its clonedAudioChunks
\* and writes them back with its chunk marked processing.
clone_audio_route_start(h, outcome) ==
    /\ handlers[h].pc = "start"
    /\ handlers[h].chunk = CloneTask
    /\ outcome \in Outcomes("cloning", {"clone_failed"})
    /\ IF ~jobs[DubbingDoc].exists
       THEN /\ Return(h, 404)
            /\ UNCHANGED jobs
       ELSE LET cloned_chunks ==
                    [i \in DOMAIN jobs[DubbingDoc].clonedAudioChunks |->
                        [jobs[DubbingDoc].clonedAudioChunks[i]
                            EXCEPT !.status = "processing"]]
            IN /\ jobs' = job_ref_update(jobs, DubbingDoc,
                                         [clonedAudioChunks |-> cloned_chunks])
               /\ handlers' = [handlers EXCEPT ![h].pc = outcome,
                                                ![h].chunks = cloned_chunks]
               /\ UNCHANGED tasks
    /\ UNCHANGED <<users, calls, audit, merged>>

\* The chunk's audio is uploaded; the chunk is completed in the handler's
\* copy, the copy and its count are written, and the merge task is created
\* when the count equals the number of chunks.
clone_audio_route_done(h) ==
    /\ handlers[h].pc = "cloning"
    /\ LET cloned_chunks ==
               [i \in DOMAIN handlers[h].chunks |->
                   [status |-> "completed", audioPath |-> TRUE]]
           completed == completed_count(cloned_chunks)
       IN /\ jobs' = job_ref_update(jobs, DubbingDoc,
                          [clonedAudioChunks |-> cloned_chunks,
                           completedChunks |-> completed])
          /\ tasks' = [Respond(h, 200) EXCEPT
                          ![MergeAudioTask].state =
                              IF completed = Len(cloned_chunks) /\ @ = "none"
                              THEN "queued" ELSE @]
    /\ handlers' = [handlers EXCEPT ![h] = IdleHandler]
    /\ UNCHANGED <<users, calls, audit, merged>>

\* The except branch marks the chunk and the job failed; its release is
\* imported from shared.credits, which defines no release_credits, so the
\* import raises and the request ends with 500.
clone_audio_route_Exception(h) ==
    /\ handlers[h].pc = "clone_failed"
    /\ LET cloned_chunks ==
               [i \in DOMAIN handlers[h].chunks |->
                   [handlers[h].chunks[i] EXCEPT !.status = "failed"]]
       IN jobs' = job_ref_update(jobs, DubbingDoc,
                      [clonedAudioChunks |-> cloned_chunks,
                       status |-> "failed"])
    /\ Return(h, 500)
    /\ UNCHANGED <<users, calls, audit, merged>>

\* merge_audio_route reads the job document and sets status merging; a
\* chunk that is not completed raises ValueError.
merge_audio_route_start(h, outcome) ==
    /\ handlers[h].pc = "start"
    /\ handlers[h].chunk = MergeAudioTask
    /\ outcome \in Outcomes("merging", {"merge_audio_failed"})
    /\ IF ~jobs[DubbingDoc].exists
       THEN /\ Return(h, 404)
            /\ UNCHANGED jobs
       ELSE LET cloned_chunks == jobs[DubbingDoc].clonedAudioChunks
            IN /\ jobs' = job_ref_update(jobs, DubbingDoc,
                                         [status |-> "merging"])
               /\ handlers' = [handlers EXCEPT
                      ![h].pc =
                          IF completed_count(cloned_chunks) = Len(cloned_chunks)
                          THEN outcome ELSE "merge_audio_failed",
                      ![h].chunks = cloned_chunks]
               /\ UNCHANGED tasks
    /\ UNCHANGED <<users, calls, audit, merged>>

\* The merged audio is stored.  A video job goes on to /merge-video; an
\* audio job calls confirm_credit_deduction on the dubbingJobs document,
\* does not look at what it returns, and sets status completed.
merge_audio_route_done(h) ==
    /\ handlers[h].pc = "merging"
    /\ LET stored == job_ref_update(jobs, DubbingDoc,
                                    [clonedAudioPath |-> TRUE])
           confirmed == LedgerCall("confirm", users, stored, audit,
                                   DubbingDoc, jobs[DubbingDoc].cost)
       IN IF jobs[DubbingDoc].mediaType = "video"
          THEN /\ jobs' = stored
               /\ tasks' = [Respond(h, 200) EXCEPT
                               ![MergeVideoTask].state =
                                   IF @ = "none" THEN "queued" ELSE @]
               /\ UNCHANGED <<users, audit>>
          ELSE /\ users' = confirmed.users
               /\ jobs' = job_ref_update(confirmed.jobs, DubbingDoc,
                                         [status |-> "completed"])
               /\ audit' = confirmed.audit
               /\ tasks' = Respond(h, 200)
    /\ handlers' = [handlers EXCEPT ![h] = IdleHandler]
    /\ UNCHANGED <<calls, merged>>

merge_audio_route_Exception(h) ==
    /\ handlers[h].pc = "merge_audio_failed"
    /\ stage_Exception(h)

\* merge_video_route reads the job document; a missing clonedAudioPath
\* raises ValueError.
merge_video_route_start(h, outcome) ==
    /\ handlers[h].pc = "start"
    /\ handlers[h].chunk = MergeVideoTask
    /\ outcome \in Outcomes("merging_video", {"merge_video_failed"})
    /\ IF ~jobs[DubbingDoc].exists
       THEN Return(h, 404)
       ELSE /\ handlers' = [handlers EXCEPT
                   ![h].pc = IF jobs[DubbingDoc].clonedAudioPath
                             THEN outcome ELSE "merge_video_failed"]
            /\ UNCHANGED tasks
    /\ UNCHANGED <<users, jobs, calls, audit, merged>>

\* The dubbed video is stored; confirm_credit_deduction is called on the
\* dubbingJobs document, its result is not looked at, and the status is set
\* to completed.
merge_video_route_done(h) ==
    /\ handlers[h].pc = "merging_video"
    /\ LET confirmed == LedgerCall("confirm", users, jobs, audit,
                                   DubbingDoc, jobs[DubbingDoc].cost)
       IN /\ users' = confirmed.users
          /\ jobs' = job_ref_update(confirmed.jobs, DubbingDoc,
                                    [status |-> "completed"])
          /\ audit' = confirmed.audit
    /\ Return(h, 200)
    /\ UNCHANGED <<calls, merged>>

merge_video_route_Exception(h) ==
    /\ handlers[h].pc = "merge_video_failed"
    /\ stage_Exception(h)

\* The state /cluster-speakers leaves behind: the reservation made by
\* dub_transcribe in voiceJobs, and the dubbingJobs document with its
\* transcript and speakers.
InitDubbingMerge ==
    /\ \E cost \in Costs, media_type \in MediaTypes :
          /\ users = [u \in Users |->
                         [InitUser("free", PipelineCredits)
                             EXCEPT !.pendingCredits = cost]]
          /\ jobs = [j \in JobIds |->
                        IF j = DubbingDoc
                        THEN [dubbing_job_doc(Owner(j), cost, media_type)
                                 EXCEPT !.status = "transcribing_done",
                                        !.transcript = TRUE]
                        ELSE job_doc_data(Owner(j), cost, NoFields)]
          /\ audit = [j \in JobIds |->
                         IF j = LedgerDoc
                         THEN [NoAudit EXCEPT !.reserved = 1, !.held = cost]
                         ELSE NoAudit]
    /\ calls = [c \in CallIds |-> IdleCall]
    /\ NoQueue

NextDubbingMerge ==
    \/ \E queued \in BOOLEAN : dub_clone(queued)
    \/ \E h \in HandlerIds, k \in TaskIds : Deliver(h, k)
    \/ \E h \in HandlerIds, k \in TaskIds : DeliverAgain(h, k)
    \/ \E h \in HandlerIds, outcome \in {"cloning", "clone_failed"} :
          clone_audio_route_start(h, outcome)
    \/ \E h \in HandlerIds : clone_audio_route_done(h)
    \/ \E h \in HandlerIds : clone_audio_route_Exception(h)
    \/ \E h \in HandlerIds, outcome \in {"merging", "merge_audio_failed"} :
          merge_audio_route_start(h, outcome)
    \/ \E h \in HandlerIds : merge_audio_route_done(h)
    \/ \E h \in HandlerIds : merge_audio_route_Exception(h)
    \/ \E h \in HandlerIds,
          outcome \in {"merging_video", "merge_video_failed"} :
          merge_video_route_start(h, outcome)
    \/ \E h \in HandlerIds : merge_video_route_done(h)
    \/ \E h \in HandlerIds : merge_video_route_Exception(h)

SpecDubbingMerge == InitDubbingMerge /\ [][NextDubbingMerge]_vars

----------------------------------------------------------------------------
(* Requests that reach a stage endpoint with an arbitrary payload *)

OtherUser == "u2"

\* A POST to a stage endpoint: the payload names the job and any uid, the
\* X-CloudTasks-TaskRetryCount header any count.  A delivery of a queued
\* task is such a request with the owner's uid; here the queue's reaction
\* to the answer is left out and the requests are served one at a time.
StageRequest(h, k, uid, retry_count) ==
    /\ h = FreeHandler
    /\ \A g \in HandlerIds : handlers[g].pc = "idle"
    /\ handlers' = [handlers EXCEPT ![h] =
                       [IdleHandler EXCEPT !.pc = "start", !.chunk = k,
                                           !.uid = uid, !.dup = TRUE,
                                           !.retry_count = retry_count]]
    /\ UNCHANGED <<users, jobs, calls, audit, tasks, merged>>

NextStageRequests ==
    \/ \E queued \in BOOLEAN : dub_clone(queued)
    \/ \E h \in HandlerIds, k \in TaskIds, uid \in Users \cup {OtherUser},
          retry_count \in {0, MAX_RETRY_ATTEMPTS} :
          StageRequest(h, k, uid, retry_count)
    \/ \E h \in HandlerIds, outcome \in {"cloning", "clone_failed"} :
          clone_audio_route_start(h, outcome)
    \/ \E h \in HandlerIds : clone_audio_route_done(h)
    \/ \E h \in HandlerIds : clone_audio_route_Exception(h)
    \/ \E h \in HandlerIds, outcome \in {"merging", "merge_audio_failed"} :
          merge_audio_route_start(h, outcome)
    \/ \E h \in HandlerIds : merge_audio_route_done(h)
    \/ \E h \in HandlerIds : merge_audio_route_Exception(h)
    \/ \E h \in HandlerIds,
          outcome \in {"merging_video", "merge_video_failed"} :
          merge_video_route_start(h, outcome)
    \/ \E h \in HandlerIds : merge_video_route_done(h)
    \/ \E h \in HandlerIds : merge_video_route_Exception(h)

SpecStageRequests == InitDubbingMerge /\ [][NextStageRequests]_vars

----------------------------------------------------------------------------
(* The dialogue chunkers of voice_clone and dub_clone *)

MaxSegments == 5
SpeakerLabels == {"A", "B", "C", "D", "E"}
MaxSpeakersChoices == {1, 2, MAX_SPEAKERS_PER_CHUNK}
\* validate_voice_clone_request refuses an empty voice_samples list
VoiceSampleCounts == {1, 2, 5}

IndexOf(seq, x) == CHOOSE i \in 1..Len(seq) : seq[i] = x

InSeq(seq, x) == \E i \in 1..Len(seq) : seq[i] = x

\* A line of the request text after line.split(':', 1) and strip(): its
\* speaker label is "" when the line has no ':' or an empty label or an
\* empty dialogue, and such a line is skipped.  n is the line's position.
\* A transcript segment carries the speakerId the transcription gave it.
Dialogue(labels) == [i \in 1..Len(labels) |-> [speaker |-> labels[i], n |-> i]]

\* elif len(current_chunk['speakers']) < max_speakers
chunk_has_room_OneMore(current_chunk, max_speakers) ==
    Len(current_chunk.speakers) <= max_speakers

chunk_has_room_OneLess(current_chunk, max_speakers) ==
    Len(current_chunk.speakers) + 1 < max_speakers

chunk_has_room(current_chunk, max_speakers) ==
    Len(current_chunk.speakers) < max_speakers

NewVoiceChunk == [speakers |-> <<>>, lines |-> <<>>, voice_sample_indices |-> <<>>]

EmitVoiceChunk_Replace(chunks, current_chunk, voice_samples) ==
    IF current_chunk.lines # <<>>
    THEN <<[speakers |-> current_chunk.speakers,
            lines |-> current_chunk.lines,
            voice_sample_indices |-> current_chunk.voice_sample_indices,
            voice_samples |->
                SelectSeq(current_chunk.voice_sample_indices,
                          LAMBDA idx : idx < voice_samples)]>>
    ELSE chunks

\* current_chunk['text'] and current_chunk['voice_samples'] are set when
\* the chunk is emitted; voice sample idx is named by its index.
EmitVoiceChunk(chunks, current_chunk, voice_samples) ==
    IF current_chunk.lines # <<>>
    THEN Append(chunks,
                [speakers |-> current_chunk.speakers,
                 lines |-> current_chunk.lines,
                 voice_sample_indices |-> current_chunk.voice_sample_indices,
                 voice_samples |->
                     SelectSeq(current_chunk.voice_sample_indices,
                               LAMBDA idx : idx < voice_samples)])
    ELSE chunks

RECURSIVE chunk_multi_speaker_loop(_, _, _, _, _, _, _)
chunk_multi_speaker_loop(lines, i, chunks, current_chunk, speaker_to_sample_idx, voice_samples, max_speakers) ==
    IF i > Len(lines)
    THEN EmitVoiceChunk(chunks, current_chunk, voice_samples)
    ELSE LET speaker_label == lines[i].speaker
             seen == IF InSeq(speaker_to_sample_idx, speaker_label)
                     THEN speaker_to_sample_idx
                     ELSE Append(speaker_to_sample_idx, speaker_label)
             sample_idx == IndexOf(seen, speaker_label) - 1
             line == [speaker |-> speaker_label, n |-> lines[i].n]
         IN IF speaker_label = ""
            THEN chunk_multi_speaker_loop(lines, i + 1, chunks, current_chunk,
                     speaker_to_sample_idx, voice_samples, max_speakers)
            ELSE IF InSeq(current_chunk.speakers, speaker_label)
            THEN chunk_multi_speaker_loop(lines, i + 1, chunks,
                     [current_chunk EXCEPT !.lines = Append(@, line)],
                     seen, voice_samples, max_speakers)
            ELSE IF chunk_has_room(current_chunk, max_speakers)
            THEN chunk_multi_speaker_loop(lines, i + 1, chunks,
                     [current_chunk EXCEPT
                         !.speakers = Append(@, speaker_label),
                         !.voice_sample_indices = Append(@, sample_idx),
                         !.lines = Append(@, line)],
                     seen, voice_samples, max_speakers)
            ELSE chunk_multi_speaker_loop(lines, i + 1,
                     EmitVoiceChunk(chunks, current_chunk, voice_samples),
                     [speakers |-> <<speaker_label>>, lines |-> <<line>>,
                      voice_sample_indices |-> <<sample_idx>>],
                     seen, voice_samples, max_speakers)

chunk_multi_speaker_dialogue(text, voice_samples, max_speakers) ==
    chunk_multi_speaker_loop(text, 1, <<>>, NewVoiceChunk, <<>>,
                             voice_samples, max_speakers)

RECURSIVE chunk_dialogue_loop(_, _, _, _)
chunk_dialogue_loop(transcript, i, chunks, current_chunk) ==
    IF i > Len(transcript)
    THEN IF current_chunk.segments # <<>>
         THEN Append(chunks, current_chunk) ELSE chunks
    ELSE LET segment == transcript[i]
             speaker_id == segment.speaker
         IN IF speaker_id = ""
            THEN chunk_dialogue_loop(transcript, i + 1, chunks, current_chunk)
            ELSE IF InSeq(current_chunk.speakers, speaker_id)
            THEN chunk_dialogue_loop(transcript, i + 1, chunks,
                     [current_chunk EXCEPT !.segments = Append(@, segment)])
            ELSE IF chunk_has_room(current_chunk, MAX_SPEAKERS_PER_CHUNK)
            THEN chunk_dialogue_loop(transcript, i + 1, chunks,
                     [current_chunk EXCEPT
                         !.speakers = Append(@, speaker_id),
                         !.segments = Append(@, segment)])
            ELSE LET closed == IF current_chunk.segments # <<>>
                               THEN Append(chunks, current_chunk) ELSE chunks
                 IN chunk_dialogue_loop(transcript, i + 1, closed,
                        [chunkId |-> Len(closed),
                         speakers |-> <<speaker_id>>,
                         segments |-> <<segment>>])

chunk_dialogue_for_inference_FromOne(transcript) ==
    chunk_dialogue_loop(transcript, 1, <<>>,
                        [chunkId |-> 1, speakers |-> <<>>, segments |-> <<>>])

chunk_dialogue_for_inference(transcript) ==
    chunk_dialogue_loop(transcript, 1, <<>>,
                        [chunkId |-> 0, speakers |-> <<>>, segments |-> <<>>])

\* A request: the text of a voice request (any line may be one that the
\* parser skips) with its voice samples, or the transcript of a dubbing job
\* (every segment has a speakerId).
RECURSIVE SeqsUpTo(_, _)
SeqsUpTo(S, n) ==
    IF n = 0 THEN {<<>>}
    ELSE LET shorter == SeqsUpTo(S, n - 1)
         IN shorter \cup {Append(q, x) : q \in {r \in shorter : Len(r) = n - 1},
                                         x \in S}

NoChunkerJob ==
    [exists |-> FALSE, kind |-> "", text |-> <<>>, voice_samples |-> 0,
     max_speakers |-> 0, chunked |-> FALSE, chunks |-> <<>>,
     raised |-> FALSE]

\* voice_clone: chunks = chunk_multi_speaker_dialogue(text, voice_samples,
\* max_speakers)
voice_clone_chunk(j) ==
    /\ jobs[j].kind = "voice"
    /\ ~jobs[j].chunked
    /\ jobs' = [jobs EXCEPT ![j].chunked = TRUE,
                            ![j].chunks = chunk_multi_speaker_dialogue(
                                jobs[j].text, jobs[j].voice_samples,
                                jobs[j].max_speakers)]
    /\ UNCHANGED <<users, calls, audit, queue>>

\* dub_clone: chunks = chunk_dialogue_for_inference(transcript)
dub_clone_chunk(j) ==
    /\ jobs[j].kind = "dubbing"
    /\ ~jobs[j].chunked
    /\ jobs' = [jobs EXCEPT ![j].chunked = TRUE,
                            ![j].chunks = chunk_dialogue_for_inference(
                                              jobs[j].text)]
    /\ UNCHANGED <<users, calls, audit, queue>>

InitChunker ==
    /\ users = [u \in Users |-> InitUser("free", PipelineCredits)]
    /\ \/ \E labels \in SeqsUpTo(SpeakerLabels \cup {""}, MaxSegments),
             voice_samples \in VoiceSampleCounts,
             max_speakers \in MaxSpeakersChoices :
             jobs = [j \in JobIds |->
                        IF j = 1
                        THEN [NoChunkerJob EXCEPT
                                 !.exists = TRUE, !.kind = "voice",
                                 !.text = Dialogue(labels),
                                 !.voice_samples = voice_samples,
                                 !.max_speakers = max_speakers]
                        ELSE NoChunkerJob]
       \/ \E labels \in SeqsUpTo(SpeakerLabels, MaxSegments) :
             jobs = [j \in JobIds |->
                        IF j = 1
                        THEN [NoChunkerJob EXCEPT
                                 !.exists = TRUE, !.kind = "dubbing",
                                 !.text = Dialogue(labels),
                                 !.max_speakers = MAX_SPEAKERS_PER_CHUNK]
                        ELSE NoChunkerJob]
    /\ calls = [c \in CallIds |-> IdleCall]
    /\ audit = [j \in JobIds |-> NoAudit]
    /\ NoQueue

NextChunker ==
    \/ \E j \in JobIds : voice_clone_chunk(j)
    \/ \E j \in JobIds : dub_clone_chunk(j)

SpecChunker == InitChunker /\ [][NextChunker]_vars

----------------------------------------------------------------------------
(* The speaker clusterer of /cluster-speakers *)

MaxAudioChunks == 5
MaxClusters == 2
min_samples == 2
Noise == -1
NoSpeaker == -2

\* An audio chunk as the clusterer sees it: valid when its embedding was
\* extracted (not shorter than 0.5 s, no exception), and then label is what
\* DBSCAN.fit_predict gave it.
AudioChunks ==
    {[valid |-> FALSE, label |-> Noise]}
        \cup {[valid |-> TRUE, label |-> l] : l \in Noise..(MaxClusters - 1)}

\* What DBSCAN can label: clusters numbered 0..k-1, each holding at least
\* min_samples points.
DBSCAN(audio_chunks) ==
    LET dense == {audio_chunks[i].label : i \in {x \in 1..Len(audio_chunks) :
                     audio_chunks[x].valid /\ audio_chunks[x].label # Noise}}
    IN /\ dense = 0..(Cardinality(dense) - 1)
       /\ \A l \in dense :
             Cardinality({i \in 1..Len(audio_chunks) :
                 audio_chunks[i].valid /\ audio_chunks[i].label = l})
                     >= min_samples

valid_indices(audio_chunks) ==
    {i \in 1..Len(audio_chunks) : audio_chunks[i].valid}

max_cluster_id_First(audio_chunks) ==
    audio_chunks[CHOOSE i \in valid_indices(audio_chunks) :
                     \A x \in valid_indices(audio_chunks) : i <= x].label

max_cluster_id(audio_chunks) ==
    LET labels == {audio_chunks[i].label : i \in valid_indices(audio_chunks)}
    IN CHOOSE m \in labels : \A l \in labels : l <= m

\* for valid_idx, label in zip(valid_indices, labels)
RECURSIVE map_valid_chunks(_, _, _, _)
map_valid_chunks(audio_chunks, i, speaker_mapping, next_noise_id) ==
    IF i > Len(audio_chunks)
    THEN [speaker_mapping |-> speaker_mapping, next_noise_id |-> next_noise_id]
    ELSE IF ~audio_chunks[i].valid
    THEN map_valid_chunks(audio_chunks, i + 1, speaker_mapping, next_noise_id)
    ELSE IF audio_chunks[i].label = Noise
    THEN map_valid_chunks(audio_chunks, i + 1,
             [speaker_mapping EXCEPT ![i] = next_noise_id], next_noise_id + 1)
    ELSE map_valid_chunks(audio_chunks, i + 1,
             [speaker_mapping EXCEPT ![i] = audio_chunks[i].label],
             next_noise_id)

\* for i in range(len(audio_chunk_paths)): if i not in speaker_mapping
RECURSIVE fill_skipped_chunks(_, _, _)
fill_skipped_chunks(i, speaker_mapping, next_noise_id) ==
    IF i > Len(speaker_mapping)
    THEN speaker_mapping
    ELSE IF speaker_mapping[i] # NoSpeaker
    THEN fill_skipped_chunks(i + 1, speaker_mapping, next_noise_id)
    ELSE LET before == {j \in 1..(i - 1) : speaker_mapping[j] # NoSpeaker}
         IN IF before # {}
            THEN LET prev == CHOOSE j \in before : \A x \in before : x <= j
                 IN fill_skipped_chunks(i + 1,
                        [speaker_mapping EXCEPT ![i] = speaker_mapping[prev]],
                        next_noise_id)
            ELSE fill_skipped_chunks(i + 1,
                     [speaker_mapping EXCEPT ![i] = next_noise_id],
                     next_noise_id + 1)

cluster_speakers_embeddings(audio_chunks) ==
    LET mapped == map_valid_chunks(audio_chunks, 1,
                      [i \in 1..Len(audio_chunks) |-> NoSpeaker],
                      max_cluster_id(audio_chunks) + 1)
    IN fill_skipped_chunks(1, mapped.speaker_mapping, mapped.next_noise_id)

\* speaker_mapping = cluster_speakers_embeddings(audio_chunks)
cluster_speakers_embeddings_returns(j) ==
    /\ jobs[j].kind = "cluster"
    /\ ~jobs[j].chunked /\ ~jobs[j].raised
    /\ valid_indices(jobs[j].text) # {}
    /\ jobs' = [jobs EXCEPT ![j].chunked = TRUE,
                            ![j].chunks = cluster_speakers_embeddings(
                                              jobs[j].text)]
    /\ UNCHANGED <<users, calls, audit, queue>>

\* raise ValueError("No valid embeddings extracted")
cluster_speakers_embeddings_raises(j) ==
    /\ jobs[j].kind = "cluster"
    /\ ~jobs[j].chunked /\ ~jobs[j].raised
    /\ valid_indices(jobs[j].text) = {}
    /\ jobs' = [jobs EXCEPT ![j].raised = TRUE]
    /\ UNCHANGED <<users, calls, audit, queue>>

InitClusterer ==
    /\ users = [u \in Users |-> InitUser("free", PipelineCredits)]
    /\ \E audio_chunks \in SeqsUpTo(AudioChunks, MaxAudioChunks) :
          /\ Len(audio_chunks) >= 2
          /\ DBSCAN(audio_chunks)
          /\ jobs = [j \in JobIds |->
                        IF j = 1
                        THEN [NoChunkerJob EXCEPT
                                 !.exists = TRUE, !.kind = "cluster",
                                 !.text = audio_chunks]
                        ELSE NoChunkerJob]
    /\ calls = [c \in CallIds |-> IdleCall]
    /\ audit = [j \in JobIds |-> NoAudit]
    /\ NoQueue

NextClusterer ==
    \/ \E j \in JobIds : cluster_speakers_embeddings_returns(j)
    \/ \E j \in JobIds : cluster_speakers_embeddings_raises(j)

SpecClusterer == InitClusterer /\ [][NextClusterer]_vars

----------------------------------------------------------------------------
(* Merging the audio of a job's chunks *)

MaxMergeChunks == 4

\* sorted(...): the elements of a set of numbers in ascending order
RECURSIVE sorted(_)
sorted(S) ==
    IF S = {} THEN <<>>
    ELSE LET least == CHOOSE x \in S : \A y \in S : x <= y
         IN <<least>> \o sorted(S \ {least})

\* The chunks array of a job as the request route stores it: chunk k is
\* the entry with chunkId k, pending.  The audio of chunk k is named k.
pending_chunks(n) ==
    [i \in 1..n |-> [chunkId |-> i - 1, status |-> "pending", audioUrl |-> -1]]

\* chunk_urls = [c["audioUrl"] for c in chunks if c.get("audioUrl")]
chunk_urls(chunks) ==
    LET with_url == SelectSeq(chunks, LAMBDA c : c.audioUrl # -1)
    IN [i \in 1..Len(with_url) |-> with_url[i].audioUrl]

merge_audio_chunks_AsCompleted(downloaded) ==
    [p \in 1..Len(downloaded) |-> downloaded[p].audio]

\* merge_audio_chunks_from_gcs, "Merge in order": the downloads are kept
\* in a dict keyed by index and joined over sorted(chunks.keys()).
merge_audio_chunks(downloaded) ==
    LET keys == sorted({downloaded[p].idx : p \in 1..Len(downloaded)})
    IN [p \in 1..Len(keys) |->
           downloaded[CHOOSE q \in 1..Len(downloaded) :
                          downloaded[q].idx = keys[p]].audio]

\* merge_audio_route: cloned_chunks.sort(key=chunkId), each chunk's file is
\* downloaded in that order and concatenate_audio_files joins the files in
\* the order of the list.
concatenate_cloned_chunks(cloned_chunks) ==
    LET ids == sorted({cloned_chunks[i].chunkId : i \in 1..Len(cloned_chunks)})
    IN [p \in 1..Len(ids) |->
           cloned_chunks[CHOOSE q \in 1..Len(cloned_chunks) :
                             cloned_chunks[q].chunkId = ids[p]].audioUrl]

NoMergeJob ==
    [exists |-> FALSE, kind |-> "", chunks |-> <<>>, phase |-> "",
     futures |-> {}, downloaded |-> <<>>, output |-> <<>>]

all_chunks_complete_AnyChunk(chunks) == completed_count(chunks) >= 1

\* if completed_chunks == total_chunks, total_chunks being len(chunks); in
\* merge_audio_route, no chunk with status != "completed".
all_chunks_complete(chunks) == completed_count(chunks) = Len(chunks)

\* A chunk task finishes: its entry is completed with its audio.
chunk_completed(j, k) ==
    /\ jobs[j].exists /\ jobs[j].phase = "chunks"
    /\ k \in 1..Len(jobs[j].chunks)
    /\ jobs[j].chunks[k].status \in {"pending", "processing"}
    /\ jobs' = [jobs EXCEPT ![j].chunks[k].status = "completed",
                            ![j].chunks[k].audioUrl = jobs[j].chunks[k].chunkId]
    /\ UNCHANGED <<users, calls, audit, queue>>

\* A chunk task that is delivered again, or fails after its chunk was
\* completed: the entry's status is rewritten, its audioUrl stays.
chunk_rewritten(j, k, status) ==
    /\ jobs[j].exists /\ jobs[j].phase = "chunks"
    /\ k \in 1..Len(jobs[j].chunks)
    /\ jobs[j].chunks[k].status = "completed"
    /\ jobs' = [jobs EXCEPT ![j].chunks[k].status = status]
    /\ UNCHANGED <<users, calls, audit, queue>>

\* _handle_multi_chunk_completion, completed_chunks == total_chunks:
\* merge_audio_chunks_from_gcs submits one download per url.
merge_audio_chunks_from_gcs_submit(j) ==
    /\ jobs[j].exists /\ jobs[j].kind = "voice" /\ jobs[j].phase = "chunks"
    /\ all_chunks_complete(jobs[j].chunks)
    /\ jobs' = [jobs EXCEPT
                   ![j].phase = "downloading",
                   ![j].futures = 1..Len(chunk_urls(jobs[j].chunks))]
    /\ UNCHANGED <<users, calls, audit, queue>>

\* for future in as_completed(futures): chunks[idx] = audio
download_chunk(j, i) ==
    /\ jobs[j].exists /\ jobs[j].phase = "downloading"
    /\ i \in jobs[j].futures
    /\ jobs' = [jobs EXCEPT
                   ![j].futures = @ \ {i},
                   ![j].downloaded =
                       Append(@, [idx |-> i,
                                  audio |-> chunk_urls(jobs[j].chunks)[i]])]
    /\ UNCHANGED <<users, calls, audit, queue>>

merge_audio_chunks_from_gcs_merge(j) ==
    /\ jobs[j].exists /\ jobs[j].phase = "downloading"
    /\ jobs[j].futures = {}
    /\ jobs' = [jobs EXCEPT ![j].phase = "merged",
                            ![j].output = merge_audio_chunks(jobs[j].downloaded)]
    /\ UNCHANGED <<users, calls, audit, queue>>

\* merge_audio_route: every chunk is tested before its file is downloaded;
\* the files are concatenated and uploaded after the last download.
merge_audio_route_merge(j) ==
    /\ jobs[j].exists /\ jobs[j].kind = "dubbing" /\ jobs[j].phase = "chunks"
    /\ all_chunks_complete(jobs[j].chunks)
    /\ jobs' = [jobs EXCEPT
                   ![j].phase = "merged",
                   ![j].output = concatenate_cloned_chunks(jobs[j].chunks)]
    /\ UNCHANGED <<users, calls, audit, queue>>

\* merge_audio_route: raise ValueError("Chunk ... not completed"); nothing
\* is uploaded and the except branch fails the job.
merge_audio_route_ValueError(j) ==
    /\ jobs[j].exists /\ jobs[j].kind = "dubbing" /\ jobs[j].phase = "chunks"
    /\ ~all_chunks_complete(jobs[j].chunks)
    /\ jobs' = [jobs EXCEPT ![j].phase = "failed"]
    /\ UNCHANGED <<users, calls, audit, queue>>

InitMerge ==
    /\ users = [u \in Users |-> InitUser("free", PipelineCredits)]
    /\ \E n \in 1..MaxMergeChunks, kind \in {"voice", "dubbing"} :
          jobs = [j \in JobIds |->
                     IF j = 1
                     THEN [NoMergeJob EXCEPT !.exists = TRUE, !.kind = kind,
                                             !.phase = "chunks",
                                             !.chunks = pending_chunks(n)]
                     ELSE NoMergeJob]
    /\ calls = [c \in CallIds |-> IdleCall]
    /\ audit = [j \in JobIds |-> NoAudit]
    /\ NoQueue

NextMerge ==
    \/ \E j \in JobIds, k \in 1..MaxMergeChunks : chunk_completed(j, k)
    \/ \E j \in JobIds : merge_audio_chunks_from_gcs_submit(j)
    \/ \E j \in JobIds, i \in 1..MaxMergeChunks : download_chunk(j, i)
    \/ \E j \in JobIds : merge_audio_chunks_from_gcs_merge(j)
    \/ \E j \in JobIds : merge_audio_route_merge(j)
    \/ \E j \in JobIds : merge_audio_route_ValueError(j)
    \/ \E j \in JobIds, k \in 1..MaxMergeChunks,
          status \in {"processing", "failed"} : chunk_rewritten(j, k, status)

SpecMerge == InitMerge /\ [][NextMerge]_vars

----------------------------------------------------------------------------
(* The timeline merger: the target duration of a segment and the decision  *)
(* to stretch it.  Durations are whole milliseconds; a ratio is the pair   *)
(* <<numerator, denominator>>.                                             *)

\* target_durations.append(target_duration if target_duration > 0 else None)
NoTarget == -1

StartTimes == {0, 1000}
EndTimes == {0, 500, 10400, 11000, 11050, 21120, 60000}
CurrentDurations == {2000, 9400, 10000, 20000, 45000}
StretchOutcomes == {"ok", "ImportError", "Exception"}
FfmpegOutcomes == {"ok", "CalledProcessError"}

Abs(x) == IF x >= 0 THEN x ELSE -x

\* merge_audio_route: chunk.get("startTime", 0), chunk.get("endTime", 0)
target_duration(chunk) ==
    LET start_time == IF chunk.has_times THEN chunk.startTime ELSE 0
        end_time == IF chunk.has_times THEN chunk.endTime ELSE 0
    IN IF end_time - start_time > 0 THEN end_time - start_time ELSE NoTarget

\* while remaining_factor > 2.0: append atempo=2.0, remaining_factor /= 2.0
\* while remaining_factor < 0.5: append atempo=0.5, remaining_factor /= 0.5
\* if abs(remaining_factor - 1.0) > 0.01: append atempo=remaining_factor
RECURSIVE atempo_filters(_, _)
atempo_filters(num, den) ==
    IF num > 2 * den THEN <<(<<2, 1>>)>> \o atempo_filters(num, 2 * den)
    ELSE IF 2 * num < den THEN <<(<<1, 2>>)>> \o atempo_filters(2 * num, den)
    ELSE IF 100 * Abs(num - den) > den THEN <<(<<num, den>>)>>
    ELSE <<>>

Unchanged == [outcome |-> "unchanged", ratio |-> <<0, 0>>, filters |-> <<>>]

\* _time_stretch_ffmpeg: the input path is returned when the filter chain
\* is empty and when ffmpeg fails.
time_stretch_ffmpeg(current_duration, target, ffmpeg) ==
    LET filters == atempo_filters(current_duration, target)
    IN IF filters = <<>> THEN Unchanged
       ELSE IF ffmpeg = "ok"
       THEN [outcome |-> "ffmpeg", ratio |-> <<current_duration, target>>,
             filters |-> filters]
       ELSE Unchanged

\* time_stretch_segment: rubberband is what importing and calling
\* pyrubberband does, ffmpeg what the ffmpeg process does.
time_stretch_segment(current_duration, target, rubberband, ffmpeg) ==
    IF Abs(current_duration - target) < 100 THEN Unchanged
    ELSE IF rubberband = "ok"
    THEN [outcome |-> "rubberband", ratio |-> <<current_duration, target>>,
          filters |-> <<>>]
    ELSE time_stretch_ffmpeg(current_duration, target, ffmpeg)

NoStretchJob ==
    [exists |-> FALSE, phase |-> "", has_times |-> FALSE, startTime |-> 0,
     endTime |-> 0, current_duration |-> 0, rubberband |-> "", ffmpeg |-> "",
     target |-> NoTarget, result |-> Unchanged]

\* merge_audio_route builds target_durations from the chunk.
merge_audio_route_target(j) ==
    /\ jobs[j].exists /\ jobs[j].phase = "chunk"
    /\ jobs' = [jobs EXCEPT ![j].phase = "target",
                            ![j].target = target_duration(jobs[j])]
    /\ UNCHANGED <<users, calls, audit, queue>>

\* concatenate_audio_files, one segment: stretched only if
\* target_durations[i] is not None.
concatenate_audio_files_segment(j) ==
    /\ jobs[j].exists /\ jobs[j].phase = "target"
    /\ jobs' = [jobs EXCEPT
                   ![j].phase = "segment",
                   ![j].result =
                       IF jobs[j].target # NoTarget
                       THEN time_stretch_segment(jobs[j].current_duration,
                                                 jobs[j].target,
                                                 jobs[j].rubberband,
                                                 jobs[j].ffmpeg)
                       ELSE Unchanged]
    /\ UNCHANGED <<users, calls, audit, queue>>

InitStretch ==
    /\ users = [u \in Users |-> InitUser("free", PipelineCredits)]
    /\ \E has_times \in BOOLEAN, s \in StartTimes, e \in EndTimes,
          d \in CurrentDurations, r \in StretchOutcomes, f \in FfmpegOutcomes :
          jobs = [j \in JobIds |->
                     IF j = 1
                     THEN [NoStretchJob EXCEPT
                              !.exists = TRUE, !.phase = "chunk",
                              !.has_times = has_times,
                              !.startTime = IF has_times THEN s ELSE 0,
                              !.endTime = IF has_times THEN e ELSE 0,
                              !.current_duration = d,
                              !.rubberband = r, !.ffmpeg = f]
                     ELSE NoStretchJob]
    /\ calls = [c \in CallIds |-> IdleCall]
    /\ audit = [j \in JobIds |-> NoAudit]
    /\ NoQueue

NextStretch ==
    \/ \E j \in JobIds : merge_audio_route_target(j)
    \/ \E j \in JobIds : concatenate_audio_files_segment(j)

SpecStretch == InitStretch /\ [][NextStretch]_vars

----------------------------------------------------------------------------
(* The expiry sweep beside a handler that finishes the same job.  The time *)
(* of the sweep is free: pendingCreditExpiry <= now is taken to hold       *)
(* whenever the sweep's query runs.                                        *)

\* voice_clone reserves the estimated cost of a new job.
sweep_reserve_credits(j, cost) ==
    /\ ~jobs[j].exists
    /\ LET reserved == LedgerReserve(users, jobs, audit, j, cost, NoFields)
       IN /\ reserved.ok
          /\ users' = reserved.users
          /\ jobs' = reserved.jobs
          /\ audit' = reserved.audit
    /\ UNCHANGED <<calls, queue>>

\* /inference: the job is written as processing.
stage_processing(j) ==
    /\ jobs[j].exists /\ handlers[j].pc = "idle"
    /\ jobs' = job_ref_update(jobs, j, [status |-> "processing"])
    /\ handlers' = [handlers EXCEPT ![j].pc = "processing"]
    /\ UNCHANGED <<users, calls, audit, tasks, merged>>

\* _handle_single_chunk_completion: confirm_credit_deduction with the
\* actual cost; its result is not read.
stage_confirm(j, actual_cost) ==
    /\ handlers[j].pc = "processing"
    /\ LET confirmed == LedgerCall("confirm", users, jobs, audit, j, actual_cost)
       IN /\ users' = confirmed.users
          /\ jobs' = confirmed.jobs
          /\ audit' = confirmed.audit
    /\ handlers' = [handlers EXCEPT ![j].pc = "confirmed"]
    /\ UNCHANGED <<calls, tasks, merged>>

\* ... then job_ref.update(status completed)
stage_completed(j) ==
    /\ handlers[j].pc = "confirmed"
    /\ jobs' = job_ref_update(jobs, j, [status |-> "completed"])
    /\ handlers' = [handlers EXCEPT ![j].pc = "returned"]
    /\ UNCHANGED <<users, calls, audit, tasks, merged>>

\* except ValueError: the job is failed and the reservation released.
stage_failed(j) ==
    /\ handlers[j].pc = "processing"
    /\ LET failed == job_ref_update(jobs, j, [status |-> "failed"])
           released == LedgerCall("release", users, failed, audit, j,
                                  jobs[j].cost)
       IN /\ users' = released.users
          /\ jobs' = released.jobs
          /\ audit' = released.audit
    /\ handlers' = [handlers EXCEPT ![j].pc = "returned"]
    /\ UNCHANGED <<calls, tasks, merged>>

\* jobs_query.stream(): a job that is queued or processing and whose
\* creditsReleased is False; uid and cost are taken from this snapshot.
cleanup_query(c, j) ==
    /\ calls[c].pc = "idle"
    /\ jobs[j].exists
    /\ jobs[j].status \in {"queued", "processing"}
    /\ jobs[j].creditsReleased = FALSE
    /\ calls' = [calls EXCEPT ![c] =
                    [IdleCall EXCEPT !.pc = "queried", !.op = "cleanup",
                                     !.job = j, !.cost = jobs[j].cost]]
    /\ UNCHANGED <<users, jobs, audit, queue>>

\* if success: the job is updated to expired
cleanup_expires(ok) == ok

\* success, error = release_credits(uid, job_doc.id, cost)
cleanup_release(c) ==
    /\ calls[c].pc = "queried"
    /\ LET released == LedgerCall("release", users, jobs, audit,
                                  calls[c].job, calls[c].cost)
       IN /\ users' = released.users
          /\ jobs' = released.jobs
          /\ audit' = released.audit
          /\ calls' = [calls EXCEPT
                          ![c].pc = IF cleanup_expires(released.ok)
                                    THEN "released" ELSE "idle"]
    /\ UNCHANGED queue

\* job_doc.reference.update({"status": "expired", ...})
cleanup_expire(c) ==
    /\ calls[c].pc = "released"
    /\ jobs' = job_ref_update(jobs, calls[c].job, [status |-> "expired"])
    /\ calls' = [calls EXCEPT ![c] = IdleCall]
    /\ UNCHANGED <<users, audit, queue>>

InitSweep ==
    /\ users = [u \in Users |-> InitUser("free", PipelineCredits)]
    /\ jobs = [j \in JobIds |-> NoJob]
    /\ calls = [c \in CallIds |-> IdleCall]
    /\ audit = [j \in JobIds |-> NoAudit]
    /\ NoQueue

NextSweep ==
    \/ \E j \in JobIds, cost \in Costs : sweep_reserve_credits(j, cost)
    \/ \E j \in JobIds : stage_processing(j)
    \/ \E j \in JobIds, actual_cost \in Costs : stage_confirm(j, actual_cost)
    \/ \E j \in JobIds : stage_completed(j)
    \/ \E j \in JobIds : stage_failed(j)
    \/ \E c \in CallIds, j \in JobIds : cleanup_query(c, j)
    \/ \E c \in CallIds : cleanup_release(c)
    \/ \E c \in CallIds : cleanup_expire(c)

SpecSweep == InitSweep /\ [][NextSweep]_vars

----------------------------------------------------------------------------
(* Properties of the ledger *)

\* Call c commits its transaction in this step.
Commits(c, op) ==
    /\ calls[c].pc = "read"
    /\ calls[c].op = op
    /\ calls'[c].pc = "done"

IsFree(uid) == users[uid].exists /\ ~users[uid].isPro

LedgerUnchanged == users' = users /\ jobs' = jobs

RECURSIVE SumOver(_, _)
SumOver(S, f) ==
    IF S = {} THEN 0
    ELSE LET x == CHOOSE y \in S : TRUE
         IN f[x] + SumOver(S \ {x}, f)

C1_ReserveStep ==
    \A c \in CallIds :
        Commits(c, "reserve") =>
            LET j == calls[c].job
                u == Owner(j)
                r == calls'[c].txn
            IN /\ jobs[j].exists =>
                     /\ ~r.ok /\ r.err = "Job already exists"
                     /\ LedgerUnchanged
               /\ (~jobs[j].exists /\ ~r.ok) =>
                     /\ r.path \in {"no_user", "insufficient"}
                     /\ LedgerUnchanged
               /\ r.ok =>
                     /\ ~jobs[j].exists /\ jobs'[j].exists
                     /\ IsFree(u) =>
                          users'[u].pendingCredits
                              = users[u].pendingCredits + calls[c].cost

C1_ReservedOnce ==
    \A j \in JobIds :
        /\ audit[j].reserved <= 1
        /\ (audit[j].reserved = 1) <=> jobs[j].exists
        /\ IsFree(Owner(j)) =>
              audit[j].held = (IF jobs[j].exists THEN jobs[j].cost ELSE 0)

\* C1: among reserve_credits calls on one job_id, whatever their
\* interleaving, a call that commits while the job document exists fails
\* with "already exists" and writes nothing; a call that commits while it
\* does not exist either succeeds, creating it and adding cost to
\* pendingCredits, or is refused for the user (no user document, not enough
\* credits) and writes nothing; so one call succeeds per job_id, every later
\* one fails with "already exists", one job document exists and
\* pendingCredits is increased for the job exactly once, by its cost.
C1_ReservationAtomicity == [](C1_ReservedOnce) /\ [][C1_ReserveStep]_vars

\* Two reserve_credits calls on one job_id have both returned: one succeeded
\* and the other failed with "already exists".
C1_Witness ==
    \E c, d \in CallIds :
        /\ c # d
        /\ calls[c].pc = "done" /\ calls[c].op = "reserve"
        /\ calls[d].pc = "done" /\ calls[d].op = "reserve"
        /\ calls[c].job = calls[d].job
        /\ calls[c].txn.ok
        /\ calls[d].txn.path = "already_exists"

\* C3: for a non-privileged user credits - pendingCredits >= 0 after every
\* ledger operation.
C3_BalanceInvariant ==
    \A u \in Users :
        IsFree(u) => users[u].credits - users[u].pendingCredits >= 0

\* A free user has had one job confirmed and another released, and a
\* reservation has been refused for lack of credits.
C3_Witness ==
    /\ IsFree("u1")
    /\ \E j, k \in JobIds :
          /\ jobs[j].creditsConfirmed
          /\ jobs[k].creditsReleased
          /\ j # k
    /\ \E c \in CallIds :
          calls[c].pc = "done" /\ calls[c].txn.path = "insufficient"

C4_Exclusive ==
    \A j \in JobIds : ~(jobs[j].creditsConfirmed /\ jobs[j].creditsReleased)

C4_TerminalStep ==
    \A c \in CallIds :
        (/\ calls[c].pc = "read"
         /\ calls'[c].pc = "done"
         /\ jobs[calls[c].job].creditsConfirmed
               \/ jobs[calls[c].job].creditsReleased)
        => users' = users

\* C4 (as claimed): creditsConfirmed and creditsReleased are never both
\* true, and once either is set no ledger call on the job changes the
\* user's credits or pendingCredits.
C4_CreditStateExclusive == [](C4_Exclusive) /\ [][C4_TerminalStep]_vars

C6_ConfirmStep ==
    \A c \in CallIds :
        (Commits(c, "confirm") /\ jobs[calls[c].job].creditsConfirmed)
        => /\ calls'[c].txn.ok
           /\ LedgerUnchanged

\* C6: a confirm_credit_deduction that commits on a job whose credits are
\* already confirmed returns success and leaves the user document (credits,
\* pendingCredits, usage counter) and the job document as they were.
C6_IdempotentConfirm == [][C6_ConfirmStep]_vars

\* A second confirm has returned through the already-confirmed branch.
C6_Witness ==
    \E c \in CallIds :
        /\ calls[c].pc = "done" /\ calls[c].op = "confirm"
        /\ calls[c].txn.path = "already_confirmed"
        /\ audit[calls[c].job].confirmed = 1

C7_ReleaseStep ==
    \A c \in CallIds :
        (/\ Commits(c, "release")
         /\ jobs[calls[c].job].creditsReleased
         /\ ~jobs[calls[c].job].creditsConfirmed)
        => /\ calls'[c].txn.ok
           /\ LedgerUnchanged

C7_ReleasedOnce == \A j \in JobIds : audit[j].released <= 1

\* C7: a release_credits that commits on a released, unconfirmed job returns
\* success and changes neither the user document nor the job document, and
\* pendingCredits is decremented for a job's release at most once.
C7_IdempotentRelease == [](C7_ReleasedOnce) /\ [][C7_ReleaseStep]_vars

\* A second release has returned through the already-released branch.
C7_Witness ==
    \E c \in CallIds :
        /\ calls[c].pc = "done" /\ calls[c].op = "release"
        /\ calls[c].txn.path = "already_released"
        /\ audit[calls[c].job].released = 1

C8_ReleaseStep ==
    \A c \in CallIds :
        (Commits(c, "release") /\ jobs[calls[c].job].creditsConfirmed)
        => /\ ~calls'[c].txn.ok
           /\ LedgerUnchanged

\* C8: a release_credits that commits on a job whose credits are confirmed
\* returns failure and leaves the user document and the job document
\* (creditsReleased included) unchanged.
C8_ReleaseAfterConfirmFails == [][C8_ReleaseStep]_vars

\* A release has been refused on a confirmed job.
C8_Witness ==
    \E c \in CallIds :
        /\ calls[c].pc = "done" /\ calls[c].op = "release"
        /\ ~calls[c].txn.ok
        /\ calls[c].txn.path = "already_confirmed"
        /\ jobs[calls[c].job].creditsConfirmed

C9_ConfirmStep ==
    \A c \in CallIds :
        LET j == calls[c].job
            u == Owner(j)
        IN (/\ Commits(c, "confirm")
            /\ IsFree(u)
            /\ jobs[j].exists /\ jobs[j].creditsReserved
            /\ ~jobs[j].creditsConfirmed /\ ~jobs[j].creditsReleased
            /\ calls[c].cost <= jobs[j].cost)
           => /\ users'[u].credits = users[u].credits - calls[c].cost
              /\ users'[u].pendingCredits
                    = users[u].pendingCredits - jobs[j].cost

\* C9 (as claimed): for a free user, confirming a reserved, unconfirmed,
\* unreleased job with actualCost <= cost takes actualCost from credits and
\* the whole reserved cost from pendingCredits.
C9_ConfirmRefundsSurplus == [][C9_ConfirmStep]_vars

Unconfirmed(u) ==
    {j \in JobIds : /\ jobs[j].exists /\ jobs[j].uid = u
                    /\ jobs[j].creditsReserved
                    /\ ~jobs[j].creditsConfirmed
                    /\ ~jobs[j].creditsReleased}

\* C10 (as claimed): a free user's pendingCredits is the sum of the costs of
\* that user's jobs that are reserved and neither confirmed nor released.
C10_PendingIsSumOfReservations ==
    \A u \in Users :
        IsFree(u) =>
            users[u].pendingCredits
                = SumOver(Unconfirmed(u), [j \in JobIds |-> jobs[j].cost])

C11_ReserveStep ==
    \A c \in CallIds :
        (Commits(c, "reserve") /\ calls'[c].txn.ok) =>
            LET j == calls[c].job
            IN /\ jobs'[j].exists
               /\ jobs'[j].creditsReserved
               /\ ~jobs'[j].creditsConfirmed
               /\ jobs'[j].cost = calls[c].cost
               /\ jobs'[j].uid = Owner(j)

C11_Together ==
    \A j \in JobIds :
        IsFree(Owner(j)) => (jobs[j].exists <=> audit[j].held > 0)

\* C11 (as claimed): whatever job metadata the caller supplies, a
\* reserve_credits that succeeds leaves a job document with creditsReserved
\* true, creditsConfirmed false, the reserved cost and the reserving uid, and
\* in every state the job document exists exactly when pendingCredits was
\* raised for it.
C11_ReserveCreatesReservedJob == [](C11_Together) /\ [][C11_ReserveStep]_vars

C12_ReserveStep ==
    \A c \in CallIds :
        Commits(c, "reserve") =>
            LET j == calls[c].job
                u == Owner(j)
                r == calls'[c].txn
                refused ==
                    \/ jobs[j].exists
                    \/ ~users[u].exists
                    \/ /\ IsFree(u)
                       /\ users[u].credits - users[u].pendingCredits
                              < calls[c].cost
            IN /\ refused => ~r.ok
               /\ ~r.ok => /\ LedgerUnchanged
                           /\ r.err # ""

\* C12: a reserve_credits that commits for a non-privileged user whose
\* credits - pendingCredits is below the cost, on a job that already exists,
\* or for a user without a document returns failure with an error message
\* and leaves the user document and every job document as they were (no
\* job document is created).
C12_ReserveFailureWritesNothing == [][C12_ReserveStep]_vars

\* A reservation was refused for lack of available credits while an earlier
\* reservation holds pendingCredits, and its job document was not created.
C12_Witness ==
    \E c \in CallIds :
        /\ calls[c].pc = "done" /\ calls[c].op = "reserve"
        /\ calls[c].txn.path = "insufficient"
        /\ ~jobs[calls[c].job].exists
        /\ users["u1"].pendingCredits > 0
        /\ users["u1"].credits = InitCredits

C13_ConfirmStep ==
    \A c \in CallIds :
        (/\ Commits(c, "confirm")
         /\ ~jobs[calls[c].job].exists \/ ~jobs[calls[c].job].creditsReserved)
        => /\ ~calls'[c].txn.ok
           /\ LedgerUnchanged

\* C13 (as claimed): a confirm_credit_deduction that commits while the job
\* document is missing or its creditsReserved flag is false returns failure
\* and changes neither the user document (credits, pendingCredits, usage
\* counter) nor any job document.
C13_ConfirmWithoutReservationFails == [][C13_ConfirmStep]_vars

\* isPro / isEnterprise
Privileged(u) ==
    users[u].exists /\ (users[u].isPro \/ users[u].isEnterprise)

\* The call that returns in this step.
Returns(op) == calls'[1] # calls[1] /\ calls'[1].op = op

C14_Step ==
    \A u \in Users :
        Privileged(u) =>
            /\ users'[u].credits = users[u].credits
            /\ users'[u].pendingCredits = users[u].pendingCredits
            /\ (Returns("reserve") /\ ~jobs[calls'[1].job].exists)
                  => calls'[1].txn.ok
            /\ Returns("check") => calls'[1].txn.ok

\* C14 (as claimed): for a user with isPro or isEnterprise set, every
\* reserve_credits on a new job and every check_credits_available succeeds
\* whatever the cost, credits and pendingCredits, and no reserve, confirm or
\* release changes the user's credits or pendingCredits.
C14_PrivilegedBypass == [][C14_Step]_vars

C15_Step ==
    \A op \in {"check", "shared_check"} :
        Returns(op) =>
            /\ users' = users /\ jobs' = jobs
            /\ \A u \in Users :
                  (users[u].exists /\ ~Privileged(u)) =>
                      (calls'[1].txn.ok
                         <=> users[u].credits - users[u].pendingCredits
                                >= calls'[1].cost)

\* C15 (as claimed): check_credits_available, in either module that defines
\* it, changes no user or job document, and for an existing non-privileged
\* user returns success exactly when credits - pendingCredits >= cost.
C15_CheckAvailable == [][C15_Step]_vars

----------------------------------------------------------------------------
(* Properties of voice generation *)

\* The actual costs the completion code of handler h can compute.
ActualCosts(h) ==
    IF is_multi_chunk(h)
    THEN {calculate_cost_from_duration(total_duration(ds), m) :
             ds \in [1..NumChunks -> Durations], m \in BOOLEAN}
    ELSE {calculate_cost_from_duration(d, m) :
             d \in Durations, m \in BOOLEAN}

C2_BilledOnce ==
    /\ \A j \in JobIds :
          /\ audit[j].confirmed <= 1
          /\ audit[j].confirmed = 0 => audit[j].billed = 0
          /\ jobs[j].status = "completed" => audit[j].confirmed = 1
          /\ (audit[j].confirmed = 1 /\ IsFree(Owner(j))) => audit[j].billed >= 1
    /\ \A u \in Users :
          users[u].credits
              = PipelineCredits - SumOver(JobIds, [j \in JobIds |-> audit[j].billed])

C2_BillingStep ==
    \A u \in Users :
        users'[u].credits # users[u].credits =>
            \E h \in HandlerIds :
                /\ handlers[h].pc \in {"generated", "all_complete"}
                /\ handlers'[h].pc = "confirmed"
                /\ audit[TaskJob].confirmed = 0
                /\ audit'[TaskJob].confirmed = 1
                /\ users[u].credits - users'[u].credits \in ActualCosts(h)
                /\ audit'[TaskJob].billed
                       = users[u].credits - users'[u].credits

C2_Witness ==
    \E j \in JobIds, h \in HandlerIds :
        /\ jobs[j].status = "completed"
        /\ handlers[h].dup
        /\ handlers[h].pc = "confirmed"
        /\ audit[j].confirmed = 1
        /\ audit[j].billed > 0
        /\ users[Owner(j)].credits = PipelineCredits - audit[j].billed

\* Every chunk task of job j was acknowledged after its handler had marked
\* the chunk completed, and no handler is running.
C5_AllChunksHandled(j) ==
    /\ jobs[j].exists
    /\ Len(jobs[j].chunks) = NumChunks
    /\ \A k \in 1..NumChunks : tasks[k].state = "done"
    /\ \A h \in HandlerIds : handlers[h].pc = "idle"

HandlesError(h) ==
    /\ handlers[h].pc \in {"samples_failed", "Exception", "merge_failed"}
    /\ handlers'[h].pc = "idle"

\* The queue will deliver the task of handler h again.
Redelivered(h) ==
    LET k == handlers[h].chunk
    IN ~handlers[h].dup =>
          /\ tasks'[k].state = "queued"
          /\ tasks'[k].retries = tasks[k].retries + 1

C17_Step ==
    \A h \in HandlerIds :
        (HandlesError(h) /\ ~is_final_attempt(h)) =>
            /\ jobs'[TaskJob].status = "retrying"
            /\ users' = users
            /\ jobs'[TaskJob].creditsReleased = jobs[TaskJob].creditsReleased
            /\ Redelivered(h)

Outstanding(j) ==
    /\ jobs[j].exists /\ jobs[j].creditsReserved
    /\ ~jobs[j].creditsConfirmed /\ ~jobs[j].creditsReleased

C18_Step ==
    \A h \in HandlerIds :
        (HandlesError(h) /\ is_final_attempt(h) /\ Outstanding(TaskJob)) =>
            LET j == TaskJob
                u == Owner(j)
            IN /\ jobs'[j].status = "failed"
               /\ jobs'[j].retriesExhausted
               /\ jobs'[j].creditsReleased
               /\ IsFree(u) =>
                     users'[u].pendingCredits
                         = users[u].pendingCredits - jobs[j].cost
               /\ ~handlers[h].dup =>
                     tasks'[handlers[h].chunk].state = "dead"

C19_Step ==
    \A h \in HandlerIds :
        LET j == TaskJob
            k == handlers[h].chunk
        IN /\ (handlers[h].pc = "ValueError" /\ handlers'[h].pc = "idle") =>
                 /\ jobs'[j].status = "failed"
                 /\ Outstanding(j) =>
                       /\ jobs'[j].creditsReleased
                       /\ IsFree(Owner(j)) =>
                             users'[Owner(j)].pendingCredits
                                 = users[Owner(j)].pendingCredits - jobs[j].cost
                 /\ ~handlers[h].dup => tasks'[k].state # "queued"
           /\ (HandlesError(h) /\ ~is_final_attempt(h) /\ ~handlers[h].dup) =>
                 tasks'[k].state = "queued"

\* C19 (as claimed): a validation error is final at every attempt count:
\* on that delivery the job is marked failed and an outstanding reservation
\* is released, and the task is not queued for another attempt; an error of
\* any other class is queued again until the attempt limit.
C19_ValidationErrorIsFinal == [][C19_Step]_vars

----------------------------------------------------------------------------
(* Properties of dubbing *)

StageOrder ==
    <<"queued", "uploading", "extracting", "transcribing", "clustering",
      "translating", "cloning", "merging", "completed">>

Rank(status) == CHOOSE i \in 1..Len(StageOrder) : StageOrder[i] = status

IsStage(status) == \E i \in 1..Len(StageOrder) : StageOrder[i] = status

C20_Step ==
    (IsStage(jobs[DubbingDoc].status) /\ IsStage(jobs'[DubbingDoc].status))
        => Rank(jobs'[DubbingDoc].status) >= Rank(jobs[DubbingDoc].status)

\* C20 (as claimed, on single steps): whatever is delivered, and whether it
\* is a duplicate or late, a step that takes the job's status from one stage
\* of the order to another never takes it to an earlier stage.  Steps into
\* and out of retrying are not constrained by this statement.
C20_StatusNeverMovesBack == [][C20_Step]_vars

\* The same over whole executions, retrying included: once the status has
\* been a stage of the order it is never afterwards an earlier stage.
C20_OnceAtAStageNeverEarlier ==
    \A s \in 1..Len(StageOrder) : \A t \in 1..(s - 1) :
        [](jobs[DubbingDoc].status = StageOrder[s]
               => [](jobs[DubbingDoc].status # StageOrder[t]))

C22_Step ==
    \A j \in JobIds :
        (~jobs[j].exists /\ jobs'[j].exists)
            => /\ audit[j].reserved = 0
               /\ audit'[j].reserved = 1
               /\ jobs'[j].creditsReserved

\* C22 (as claimed): a job document that the stages read and that
\* confirmation and release are applied to comes into existence only by a
\* reservation, once, and carries creditsReserved from then on.
C22_CreatedOnlyByReserve ==
    /\ [][C22_Step]_vars
    /\ [](\A j \in JobIds : jobs[j].exists => audit[j].reserved = 1)

\* Handler h takes a step of its request.
Acts(h) == handlers[h].pc # "idle" /\ handlers'[h] # handlers[h]

C23_Step ==
    \A h \in HandlerIds :
        (Acts(h) /\ jobs[DubbingDoc].exists
                 /\ handlers[h].uid # jobs[DubbingDoc].uid)
            => /\ jobs' = jobs
               /\ users' = users
               /\ audit' = audit

\* C23 (as claimed): a stage handler whose request carries a uid that is
\* not the uid stored on the job changes neither the job document nor the
\* user's ledger, and makes no confirmation or release.
C23_OwnershipRevalidated == [][C23_Step]_vars

\* Handler h leaves an except branch in which it has decided that the
\* failure is final: the attempt limit is reached, or the error is a
\* validation error.
DecidesFinal(h) ==
    /\ handlers'[h].pc = "idle"
    /\ \/ handlers[h].pc = "ValueError"
       \/ /\ handlers[h].pc \in {"samples_failed", "Exception"}
          /\ is_final_attempt(h)

C24_Step ==
    \A j \in JobIds :
        audit'[j].released > audit[j].released
            => \E h \in HandlerIds : DecidesFinal(h)

\* C24 (as claimed): a reservation is released only in a step in which a
\* stage handler has decided that its failure is final; neither the route
\* that accepts the request nor the chunk-completion code releases.
C24_ReleaseOnlyOnFinalFailure == [][C24_Step]_vars

----------------------------------------------------------------------------
(* Properties of the chunkers *)

Range(seq) == {seq[i] : i \in 1..Len(seq)}

NoDuplicates(seq) == \A a, b \in 1..Len(seq) : seq[a] = seq[b] => a = b

\* The lines of a voice chunk, the segments of a dubbing chunk
ChunkSegments(c, kind) == IF kind = "voice" THEN c.lines ELSE c.segments

ChunksOf(j) == jobs[j].chunks

\* C25: every chunk emitted by a chunker has at most maxSpeakersPerChunk
\* distinct speakers (in its speakers list and among its segments), and its
\* speakers list has no duplicates.
C25_ChunkSpeakersBounded ==
    \A j \in JobIds : jobs[j].chunked =>
        \A k \in 1..Len(ChunksOf(j)) :
            LET c == ChunksOf(j)[k]
                segs == ChunkSegments(c, jobs[j].kind)
            IN /\ Len(c.speakers) <= jobs[j].max_speakers
               /\ NoDuplicates(c.speakers)
               /\ {segs[i].speaker : i \in 1..Len(segs)} = Range(c.speakers)

C25_Witness ==
    \E j \in JobIds :
        /\ jobs[j].chunked /\ jobs[j].kind = "voice"
        /\ jobs[j].max_speakers = 2
        /\ Len(ChunksOf(j)) = 2
        /\ Len(ChunksOf(j)[1].speakers) = 2
        /\ Len(ChunksOf(j)[1].lines) = 3

RECURSIVE ConcatSegments(_, _)
ConcatSegments(chunks, kind) ==
    IF chunks = <<>> THEN <<>>
    ELSE ChunkSegments(Head(chunks), kind) \o ConcatSegments(Tail(chunks), kind)

\* The segments of a dialogue: the lines that name a speaker and say
\* something, in the order of the text.
SegmentsOf(text) == SelectSeq(text, LAMBDA line : line.speaker # "")

C27_BoundariesAtSpeakerIntroduction ==
    \A j \in JobIds : jobs[j].chunked =>
        \A k \in 1..Len(ChunksOf(j)) :
            /\ k < Len(ChunksOf(j))
                  => Len(ChunksOf(j)[k].speakers) = jobs[j].max_speakers
            /\ k > 1
                  => ~InSeq(ChunksOf(j)[k - 1].speakers,
                            Head(ChunkSegments(ChunksOf(j)[k],
                                               jobs[j].kind)).speaker)

C27_Witness ==
    \E j \in JobIds :
        /\ jobs[j].chunked /\ jobs[j].kind = "dubbing"
        /\ Len(ChunksOf(j)) = 2
        /\ Len(ChunksOf(j)[1].speakers) = MAX_SPEAKERS_PER_CHUNK
        /\ Len(ChunksOf(j)[2].segments) = 1

\* The speakers of a segment sequence in order of first appearance
RECURSIVE FirstAppearance(_)
FirstAppearance(segs) ==
    IF segs = <<>> THEN <<>>
    ELSE LET before == FirstAppearance(SubSeq(segs, 1, Len(segs) - 1))
             s == segs[Len(segs)].speaker
         IN IF InSeq(before, s) THEN before ELSE Append(before, s)

\* C28: the k-th chunk emitted for a transcript has chunkId k (0-based,
\* dense) and lists its speakers in order of first appearance within the
\* chunk; five speakers A..E speaking once each give chunk 0 with speakers
\* A, B, C, D and chunk 1 with speaker E.
C28_ChunkIdsAndSpeakerOrder ==
    \A j \in JobIds : (jobs[j].chunked /\ jobs[j].kind = "dubbing") =>
        /\ \A k \in 1..Len(ChunksOf(j)) :
              /\ ChunksOf(j)[k].chunkId = k - 1
              /\ ChunksOf(j)[k].speakers =
                     FirstAppearance(ChunksOf(j)[k].segments)
        /\ jobs[j].text = Dialogue(<<"A", "B", "C", "D", "E">>)
              => /\ Len(ChunksOf(j)) = 2
                 /\ ChunksOf(j)[1].speakers = <<"A", "B", "C", "D">>
                 /\ ChunksOf(j)[2].speakers = <<"E">>

C28_Witness ==
    \E j \in JobIds :
        /\ jobs[j].chunked /\ jobs[j].kind = "dubbing"
        /\ jobs[j].text = Dialogue(<<"A", "B", "C", "D", "E">>)
        /\ ChunksOf(j)[2].chunkId = 1

\* The voice sample that belongs to a speaker of a voice request: the i-th
\* sample for the i-th speaker to appear in the text (0-based).
SampleOf(text, speaker) == IndexOf(FirstAppearance(SegmentsOf(text)), speaker) - 1

\* C29: in every emitted chunk the voice samples are parallel to the
\* speakers list: one sample per speaker, the k-th sample being that of the
\* k-th speaker of the chunk.
C29_VoiceSamplesParallelToSpeakers ==
    \A j \in JobIds : (jobs[j].chunked /\ jobs[j].kind = "voice") =>
        \A k \in 1..Len(ChunksOf(j)) :
            LET c == ChunksOf(j)[k]
            IN /\ Len(c.voice_samples) = Len(c.speakers)
               /\ \A i \in 1..Len(c.voice_samples) :
                     c.voice_samples[i] = SampleOf(jobs[j].text, c.speakers[i])

----------------------------------------------------------------------------
(* Properties of the speaker clusterer *)

NoiseChunks(audio_chunks) ==
    {i \in valid_indices(audio_chunks) : audio_chunks[i].label = Noise}

DenseChunks(audio_chunks) ==
    {i \in valid_indices(audio_chunks) : audio_chunks[i].label # Noise}

\* C30: in the clusterer's output every chunk labelled noise has a cluster
\* id distinct from every dense cluster's id and from every other noise
\* chunk's id, and every chunk of the input has an id.
C30_NoiseGetsOwnCluster ==
    \A j \in JobIds : (jobs[j].chunked /\ jobs[j].kind = "cluster") =>
        LET audio_chunks == jobs[j].text
            speaker_mapping == jobs[j].chunks
        IN /\ Len(speaker_mapping) = Len(audio_chunks)
           /\ \A i \in 1..Len(speaker_mapping) : speaker_mapping[i] >= 0
           /\ \A i \in DenseChunks(audio_chunks) :
                 speaker_mapping[i] = audio_chunks[i].label
           /\ \A i \in NoiseChunks(audio_chunks) :
                 /\ \A d \in DenseChunks(audio_chunks) :
                       speaker_mapping[i] # speaker_mapping[d]
                 /\ \A n \in NoiseChunks(audio_chunks) :
                       n # i => speaker_mapping[n] # speaker_mapping[i]

C30_Witness ==
    \E j \in JobIds :
        /\ jobs[j].chunked /\ jobs[j].kind = "cluster"
        /\ Cardinality(NoiseChunks(jobs[j].text)) = 2
        /\ Cardinality(DenseChunks(jobs[j].text)) = 2
        /\ Len(jobs[j].text) = 5

\* The included chunks that precede chunk i
IncludedBefore(audio_chunks, i) == {j \in valid_indices(audio_chunks) : j < i}

\* C31: the clusterer's output maps every chunk index to a cluster id; an
\* excluded chunk has the id of the nearest preceding included chunk, and
\* an excluded chunk with no included chunk before it has a new id that no
\* other chunk has.
C31_ExcludedChunksFilled ==
    \A j \in JobIds : (jobs[j].chunked /\ jobs[j].kind = "cluster") =>
        LET audio_chunks == jobs[j].text
            speaker_mapping == jobs[j].chunks
        IN /\ Len(speaker_mapping) = Len(audio_chunks)
           /\ \A i \in 1..Len(audio_chunks) :
                 ~audio_chunks[i].valid =>
                    LET before == IncludedBefore(audio_chunks, i)
                    IN IF before # {}
                       THEN speaker_mapping[i] = speaker_mapping[
                                CHOOSE b \in before : \A x \in before : x <= b]
                       ELSE \A o \in 1..Len(audio_chunks) :
                                o # i => speaker_mapping[o] # speaker_mapping[i]

----------------------------------------------------------------------------
(* Properties of the merge *)

\* C32: the merged track is the audio of all chunks in ascending chunk
\* order, whatever order the chunks completed in and the downloads
\* finished in.
C32_MergedInChunkOrder ==
    \A j \in JobIds : (jobs[j].exists /\ jobs[j].phase = "merged") =>
        jobs[j].output = [p \in 1..Len(jobs[j].chunks) |-> p - 1]

C32_Witness ==
    \E j \in JobIds :
        /\ jobs[j].exists /\ jobs[j].phase = "merged"
        /\ Len(jobs[j].downloaded) = 3
        /\ jobs[j].downloaded[1].idx = 3
        /\ jobs[j].downloaded[2].idx = 1

----------------------------------------------------------------------------
(* Properties of the translation request *)

\* C34: a translate request by the owner, served while the job has the
\* status the clustering stage leaves on success, is accepted and moves the
\* job to translating.
C34_Step ==
    \A h \in HandlerIds :
        (/\ handlers[h].pc = "translate" /\ handlers'[h].pc = "idle"
         /\ jobs[DubbingDoc].exists
         /\ handlers[h].uid = jobs[DubbingDoc].uid
         /\ jobs[DubbingDoc].status = "transcribing_done")
            => jobs'[DubbingDoc].status = "translating"

C34_TranslateAcceptedAfterClustering == [][C34_Step]_vars

----------------------------------------------------------------------------
(* Properties of job and chunk status under redelivery *)

TerminalStatuses == {"completed", "failed", "expired"}

\* C35: terminal states are absorbing: once a job's status is completed,
\* failed or expired, no step changes it.
C35_Step ==
    \A j \in JobIds :
        (jobs[j].exists /\ jobs[j].status \in TerminalStatuses)
            => jobs'[j].status = jobs[j].status

C35_TerminalStatusAbsorbing == [][C35_Step]_vars

\* C36: a chunk's completion is never lost: once a chunk of the job is
\* completed with its audio reference, no step writes another status to it
\* or removes the reference.
C36_Step ==
    \A j \in JobIds :
        jobs[j].exists =>
            \A k \in 1..Len(jobs[j].chunks) :
                (/\ jobs[j].chunks[k].status = "completed"
                 /\ jobs[j].chunks[k].audioUrl)
                    => /\ k <= Len(jobs'[j].chunks)
                       /\ jobs'[j].chunks[k].status = "completed"
                       /\ jobs'[j].chunks[k].audioUrl

Quiet ==
    /\ \A k \in TaskIds : tasks[k].state \in {"none", "done", "dead"}
    /\ \E k \in TaskIds : tasks[k].state # "none"
    /\ \A h \in HandlerIds : handlers[h].pc = "idle"

----------------------------------------------------------------------------
(* Properties of the balances in the pipeline *)

----------------------------------------------------------------------------
(* Properties of the timeline merger *)

StretchedSegments == {j \in JobIds : jobs[j].exists /\ jobs[j].phase = "segment"}

\* C33: a segment is passed through unchanged exactly when it has no target
\* or its duration is within 100 ms of the target, and is otherwise stretched
\* with ratio currentDuration / target; a segment whose endTime - startTime
\* is not positive has no target.
C33_StretchExactlyWhenOffTarget ==
    \A j \in StretchedSegments :
        LET s == jobs[j]
            close == \/ s.target = NoTarget
                     \/ Abs(s.current_duration - s.target) < 100
        IN /\ (s.endTime - s.startTime <= 0) => s.target = NoTarget
           /\ (s.result.outcome = "unchanged") <=> close
           /\ ~close => s.result.ratio = <<s.current_duration, s.target>>

----------------------------------------------------------------------------
(* Properties of the expiry sweep *)

----------------------------------------------------------------------------
(* Properties of the merge guards *)

\* C40: a merge is started, and a merged track stored, only for a job all
\* of whose chunks are completed, and the stored track holds the audio of
\* every chunk of the job.
C40_MergedOnlyFromCompleteChunks ==
    \A j \in JobIds :
        (jobs[j].exists /\ jobs[j].phase \in {"downloading", "merged"}) =>
            /\ \A k \in 1..Len(jobs[j].chunks) :
                   /\ jobs[j].chunks[k].status = "completed"
                   /\ jobs[j].phase = "merged" =>
                          \E p \in 1..Len(jobs[j].output) :
                              jobs[j].output[p] = jobs[j].chunks[k].chunkId
            /\ jobs[j].phase = "merged" =>
                   Len(jobs[j].output) = Len(jobs[j].chunks)

C40_Witness ==
    /\ \E j \in JobIds :
          /\ jobs[j].exists /\ jobs[j].phase = "merged"
          /\ Len(jobs[j].output) = MaxMergeChunks

====
